---- MODULE Spec2Model ----
(***************************************************************************)
(* Regular-expression engine of the repository: pattern text is read by    *)
(* SimpleParser into an AST, every AST node builds an NFA fragment on the  *)
(* free store, and NfaRunner drives the automaton over an input string.    *)
(*                                                                         *)
(* Characters are one-character strings.  A pattern or an input string is  *)
(* a sequence of characters.  Pointers are positive integers; the null     *)
(* pointer is NULL.  The free store `heap' maps the live Node objects and  *)
(* the live NFA objects to their fields.                                   *)
(***************************************************************************)
EXTENDS Integers, Sequences, FiniteSets, TLC

VARIABLES
    expression_,  \* RegEx::expression_
    compiled_,    \* RegEx::compiled_ (NULL or the NFA object it owns)
    parser_,      \* RegEx::parser_ (the strategy object)
    heap,         \* Node and NFA objects currently alive
    nfa_,         \* NfaRunner::nfa_ (NULL while no runner exists)
    state_,       \* NfaRunner::state_
    text,         \* the characters the driver has fed to step so far
    returned,     \* the last full_match(text) call and its value; NotReturned if stale
    last,         \* the last call on the RegEx or on a graph: name, arguments,
                  \* value returned and, for a graph, the free store before it
    peer,         \* a second NfaRunner: its nfa_, its state_ and its text
    table,        \* a HashTable<int,int>: bucket_list and size_ (NULL: none)
    trie,         \* a Trie and its TrieNode objects (NULL: none)
    rbtree        \* a RedBlackTree<int,int> and its nodes (NULL: none)

vars == <<expression_, compiled_, parser_, heap, nfa_, state_, text, returned,
          last, peer, table, trie, rbtree>>

-----------------------------------------------------------------------------
(* Bounds *)

\* Longest input string fed to a runner.
MaxLen == 3
\* Largest number of AST nodes of a tree handed to build().
MaxAstSize == 4

-----------------------------------------------------------------------------
(* Characters *)

NULL == 0

\* the program has constructed no container
NoContainer == table = NULL /\ trie = NULL /\ rbtree = NULL

\* a call on the regular-expression engine touches no container
ContainersUnchanged == UNCHANGED <<table, trie, rbtree>>

\* std::char_traits<char>::eof()
EOF == "EOF"

\* (char) of eof(): the byte 0xFF
CharFF == "\\377"

\* The characters of the model in increasing order of their code.
CharOrder ==
    << "(", ")", "*", "+", "-", ".", ":", "?", "[", "\\", "]", "^",
       "a", "b", "c", "d", "|", CharFF >>

Code(c) == CHOOSE i \in 1..Len(CharOrder) : CharOrder[i] = c

\* int_type -> char conversion
ToChar(c) == IF c = EOF THEN CharFF ELSE c

\* Plain char is signed on the build's platform: (char)eof() promotes to -1.
CharIsSigned == TRUE

\* Value of a char promoted to int, as an index of CharOrder (below 1: negative).
Promote(d) == IF d = CharFF /\ CharIsSigned THEN 0 ELSE Code(d)

-----------------------------------------------------------------------------
(* Transition::Functor values *)

\* [c](char d){return c == d;}
FnEquals(c) == [fn |-> "equals", arg |-> <<c>>]
\* [](char){return true;}
FnTrue == [fn |-> "true", arg |-> <<>>]
\* [characters](char c){ return characters.find(c) == std::string::npos; }
FnFindNpos(characters) == [fn |-> "find_npos", arg |-> characters]

Call(f, c) ==
    CASE f.fn = "equals"    -> f.arg[1] = c
      [] f.fn = "true"      -> TRUE
      [] f.fn = "find_npos" -> ~ \E i \in 1..Len(f.arg) : f.arg[i] = c

-----------------------------------------------------------------------------
(* The free store *)

EmptyHeap == [node |-> <<>>, nfa |-> <<>>]

\* The value of a function with a one-point domain.  A statement sequence
\*     x = E; return F(x);
\* is written Only([x \in {E} |-> F(x)]): the bound x holds the value of E,
\* computed once and before F, where a LET definition is an expression TLC
\* may evaluate again at each use.
Only(f) == f[CHOOSE x \in DOMAIN f : TRUE]

\* The map f as a table of its entries: the model checker keeps a function
\* expression unevaluated until then, and long chains of them exhaust its stack.
Map(f) == f @@ <<>>

\* operator new: the lowest address that is not in use
FreeIn(f) == CHOOSE i \in 1..(Cardinality(DOMAIN f) + 1) : i \notin DOMAIN f

\* Node::Node(NFA* graph)
Node_new(h, graph) ==
    LET n == FreeIn(h.node) IN
    [h |-> [h EXCEPT !.node = (n :> [graph_ |-> graph,
                                     transitions_ |-> <<>>,
                                     empty_transitions_ |-> {}]) @@ @],
     r |-> n]

\* NFA::remove_node
remove_node(h, this, node) ==
    IF h.node[node].graph_ = this
    THEN [h EXCEPT !.node[node].graph_ = NULL,
                   !.nfa[this].input_  = IF @ = node THEN NULL ELSE @,
                   !.nfa[this].output_ = IF @ = node THEN NULL ELSE @,
                   !.nfa[this].nodes_  = @ \ {node}]
    ELSE h

\* an insert_node that leaves the node with its previous owner as well
insert_node_shared(h, this, node) ==
    [h EXCEPT !.node[node].graph_ = this,
              !.nfa[this].nodes_ = @ \cup {node}]

\* NFA::insert_node
insert_node(h, this, node) ==
    IF h.node[node].graph_ # this
    THEN LET h1 == IF h.node[node].graph_ # NULL
                   THEN remove_node(h, h.node[node].graph_, node)
                   ELSE h
         IN [h1 EXCEPT !.node[node].graph_ = this,
                       !.nfa[this].nodes_ = @ \cup {node}]
    ELSE h

\* NFA::set_input
set_input(h, this, node) ==
    [insert_node(h, this, node) EXCEPT !.nfa[this].input_ = node]

\* NFA::set_output
set_output(h, this, node) ==
    [insert_node(h, this, node) EXCEPT !.nfa[this].output_ = node]

\* a constructor that designates one node as input and as output
NFA_new_one_node(h) ==
    Only([g \in {FreeIn(h.nfa)} |->
    Only([h0 \in {[h EXCEPT !.nfa = (g :> [nodes_ |-> {}, input_ |-> NULL,
                                          output_ |-> NULL]) @@ @]} |->
    Only([a \in {Node_new(h0, NULL)} |->
    Only([h1 \in {set_input(a.h, g, a.r)} |->
        [h |-> set_output(h1, g, a.r), r |-> g]])])])])

\* NFA::NFA()
NFA_new(h) ==
    Only([g \in {FreeIn(h.nfa)} |->
    Only([h0 \in {[h EXCEPT !.nfa = (g :> [nodes_ |-> {}, input_ |-> NULL,
                                          output_ |-> NULL]) @@ @]} |->
    Only([a \in {Node_new(h0, NULL)} |->
    Only([h1 \in {set_input(a.h, g, a.r)} |->
    Only([b \in {Node_new(h1, NULL)} |->
        [h |-> set_output(b.h, g, b.r), r |-> g]])])])])])

\* an acquire_nodes that leaves `other' its input and output
acquire_nodes_keeping_ends(h, this, other) ==
    Only([moved \in {h.nfa[other].nodes_} |->
        [h EXCEPT !.node = Map([n \in DOMAIN @ |->
                                   IF n \in moved
                                   THEN [@[n] EXCEPT !.graph_ = this]
                                   ELSE @[n]]),
                  !.nfa[this].nodes_ = @ \cup moved,
                  !.nfa[other].nodes_ = {}]])

\* NFA::acquire_nodes
acquire_nodes(h, this, other) ==
    Only([moved \in {h.nfa[other].nodes_} |->
    Only([h1 \in {[h EXCEPT !.nfa[other].input_ = NULL,
                           !.nfa[other].output_ = NULL]} |->
    Only([h2 \in {[h1 EXCEPT !.node = Map([n \in DOMAIN @ |->
                                             IF n \in moved
                                             THEN [@[n] EXCEPT !.graph_ = this]
                                             ELSE @[n]])]} |->
    Only([h3 \in {[h2 EXCEPT !.nfa[this].nodes_ = @ \cup moved]} |->
        [h3 EXCEPT !.nfa[other].nodes_ = {}]])])])])

\* a move constructor that takes the nodes and forgets input and output
NFA_move_nodes_only(h, other) ==
    Only([g \in {FreeIn(h.nfa)} |->
    Only([h0 \in {[h EXCEPT !.nfa = (g :> [nodes_ |-> {}, input_ |-> NULL,
                                          output_ |-> NULL]) @@ @]} |->
        [h |-> acquire_nodes(h0, g, other), r |-> g]])])

\* NFA::NFA(NFA&& other)
NFA_move(h, other) ==
    Only([g \in {FreeIn(h.nfa)} |->
    Only([h0 \in {[h EXCEPT !.nfa = (g :> [nodes_ |-> {},
                                          input_ |-> h.nfa[other].input_,
                                          output_ |-> h.nfa[other].output_])
                                   @@ @]} |->
        [h |-> acquire_nodes(h0, g, other), r |-> g]])])

\* NFA::clear
clear(h, this) ==
    LET dead == h.nfa[this].nodes_ IN
    [h EXCEPT !.nfa[this] = [nodes_ |-> {}, input_ |-> NULL, output_ |-> NULL],
              !.node = Map([n \in (DOMAIN @) \ dead |-> @[n]])]

\* NFA::~NFA
NFA_delete(h, this) ==
    LET h1 == clear(h, this) IN
    [h1 EXCEPT !.nfa = Map([g \in (DOMAIN @) \ {this} |-> @[g]])]

\* The value of a call that returns an NFA by std::move of the object `from':
\* the result is move-constructed, then `from' is destroyed.
MoveOut(h, from) ==
    Only([m \in {NFA_move(h, from)} |->
        [h |-> NFA_delete(m.h, from), r |-> m.r]])

\* Node::~Node and operator delete
Node_delete(h, node) ==
    LET h1 == IF h.node[node].graph_ # NULL
              THEN remove_node(h, h.node[node].graph_, node)
              ELSE h
    IN [h1 EXCEPT !.node = Map([n \in (DOMAIN @) \ {node} |-> @[n]])]

\* Node::add_transition(Node* target)
add_transition(h, this, target) ==
    IF target # NULL
    THEN [h EXCEPT !.node[this].empty_transitions_ = @ \cup {target}]
    ELSE h

\* Node::add_transition(Node* target, const Functor& condition); the model's
\* functors are never empty
add_transition_if(h, this, target, condition) ==
    IF target # NULL
    THEN [h EXCEPT !.node[this].transitions_ =
                        Append(@, [target |-> target, condition |-> condition])]
    ELSE h

\* a merge that leaves the transitions of `other' behind
Node_merge_nothing(h, this, other) == h

\* Node::merge
Node_merge(h, this, other) ==
    [h EXCEPT !.node[this].transitions_ = @ \o h.node[other].transitions_,
              !.node[this].empty_transitions_ =
                    @ \cup h.node[other].empty_transitions_]

\* NFA& NFA::operator=(NFA&& other)
NFA_move_assign(h, this, other) ==
    Only([h1 \in {clear(h, this)} |->
    Only([h2 \in {[h1 EXCEPT !.nfa[this].input_ = h1.nfa[other].input_,
                             !.nfa[this].output_ = h1.nfa[other].output_]} |->
        acquire_nodes(h2, this, other)])])

\* Is p the address of a live Node?
Live(h, p) == p \in DOMAIN h.node

\* NFA::merge.  The call has undefined behaviour when it uses a node that is
\* not there: output_ or other.input_ already deleted, or other.output_
\* null or deleted once `delete other.input_' has run (Node::~Node resets
\* other.output_ when it is the same node, and set_output then reads the
\* graph_ of a null node).  Then fault is TRUE, h is the store at that
\* point, and nothing is known of the program from there on.
NFA_merge(h, this, other) ==
    IF \/ other = this
       \/ h.nfa[this].output_ = NULL
       \/ h.nfa[other].input_ = NULL
       \/ h.nfa[other].output_ = NULL
    THEN [h |-> h, r |-> FALSE, fault |-> FALSE]
    ELSE IF ~Live(h, h.nfa[this].output_) \/ ~Live(h, h.nfa[other].input_)
    THEN [h |-> h, r |-> FALSE, fault |-> TRUE]
    ELSE Only([h1 \in {Node_merge(h, h.nfa[this].output_,
                                  h.nfa[other].input_)} |->
         Only([h2 \in {Node_delete(h1, h1.nfa[other].input_)} |->
            IF ~Live(h2, h2.nfa[other].output_)
            THEN [h |-> h2, r |-> FALSE, fault |-> TRUE]
            ELSE Only([h3 \in {set_output(h2, this, h2.nfa[other].output_)} |->
                   [h |-> acquire_nodes(h3, this, other), r |-> TRUE,
                    fault |-> FALSE]])])])

\* Node::clone: new Node(*this), a member-wise copy that keeps graph_
Node_clone(h, this) ==
    Only([n \in {FreeIn(h.node)} |->
        [h |-> [h EXCEPT !.node = (n :> h.node[this]) @@ @], r |-> n]])

RECURSIVE translate_transitions(_, _)
\* second loop of Node::translate, over old_transitions
translate_transitions(old_transitions, map) ==
    IF old_transitions = <<>> THEN <<>>
    ELSE LET transition == Head(old_transitions)
         IN (IF transition.target \in DOMAIN map
             THEN <<[target |-> map[transition.target],
                     condition |-> transition.condition]>>
             ELSE <<>>)
            \o translate_transitions(Tail(old_transitions), map)

\* a translate that leaves the edges on the nodes of the source
Node_translate_nothing(h, this, map) == h

\* Node::translate
Node_translate(h, this, map) ==
    [h EXCEPT
       !.node[this].empty_transitions_ =
           {map[n] : n \in h.node[this].empty_transitions_ \cap DOMAIN map},
       !.node[this].transitions_ =
           translate_transitions(h.node[this].transitions_, map)]

RECURSIVE duplicate_clone_loop(_, _, _, _)
\* first loop of NFA::duplicate, over the nodes of *this still to visit
duplicate_clone_loop(h, result, todo, translation) ==
    IF todo = {} THEN [h |-> h, translation |-> translation]
    ELSE Only([node \in {CHOOSE n \in todo : TRUE} |->
         Only([copied_node \in {Node_clone(h, node)} |->
             duplicate_clone_loop(
                 insert_node(copied_node.h, result, copied_node.r),
                 result, todo \ {node},
                 (node :> copied_node.r) @@ translation)])])

RECURSIVE duplicate_translate_loop(_, _, _)
\* second loop of NFA::duplicate, over the nodes of result still to visit
duplicate_translate_loop(h, todo, translation) ==
    IF todo = {} THEN h
    ELSE Only([node \in {CHOOSE n \in todo : TRUE} |->
             duplicate_translate_loop(Node_translate(h, node, translation),
                                      todo \ {node}, translation)])

\* NFA::duplicate: the store afterwards, the NFA returned, and the
\* translation table the call worked with
NFA_duplicate(h, this) ==
    Only([result \in {NFA_new(h)} |->
    Only([cloned \in {duplicate_clone_loop(result.h, result.r,
                                           h.nfa[this].nodes_, <<>>)} |->
    Only([h1 \in {duplicate_translate_loop(cloned.h,
                                           cloned.h.nfa[result.r].nodes_,
                                           cloned.translation)} |->
    Only([moved \in {MoveOut(h1, result.r)} |->
        [h |-> moved.h, r |-> moved.r,
         translation |-> cloned.translation]])])])])

-----------------------------------------------------------------------------
(* AST nodes (ast::Node and its subclasses) *)

\* a null ast::Node*
NullAst == [tag |-> "nullptr"]

Leaf(condition) == [tag |-> "Leaf", condition |-> condition]
\* SingleCharacter is a Leaf whose condition compares with one character
SingleCharacter(c) == Leaf(FnEquals(ToChar(c)))
Choice(left, right) == [tag |-> "Choice", left |-> left, right |-> right]
Concat(left, right) == [tag |-> "Concat", left |-> left, right |-> right]
KleeneStar(child) == [tag |-> "KleeneStar", child |-> child]
KleenePlus(child) == [tag |-> "KleenePlus", child |-> child]
Optional(child) == [tag |-> "Optional", child |-> child]
Subexpression(child) == [tag |-> "Subexpression", child |-> child]

RECURSIVE build(_, _)

\* One side of Choice::build: the block guarded by if (left) / if (right)
Choice_side(h, graph, side) ==
    IF side = NullAst THEN h
    ELSE Only([b \in {build(h, side)} |->
         Only([sg \in {MoveOut(b.h, b.r)} |->
         Only([h1 \in {add_transition(sg.h, sg.h.nfa[graph].input_,
                                      sg.h.nfa[sg.r].input_)} |->
         Only([h2 \in {add_transition(h1, h1.nfa[sg.r].output_,
                                      h1.nfa[graph].output_)} |->
         Only([h3 \in {acquire_nodes(h2, graph, sg.r)} |->
             NFA_delete(h3, sg.r)])])])])])

\* a Choice that wires only its left branch
Choice_build_left_only(h, left, right) ==
    Only([g \in {NFA_new(h)} |->
    Only([h1 \in {Choice_side(g.h, g.r, left)} |->
        MoveOut(h1, g.r)])])

\* Choice::build
Choice_build(h, left, right) ==
    Only([g \in {NFA_new(h)} |->
    Only([h1 \in {Choice_side(g.h, g.r, left)} |->
    Only([h2 \in {Choice_side(h1, g.r, right)} |->
        MoveOut(h2, g.r)])])])

\* Concat::build up to the merge: left_graph and right_graph of the two
\* children, each move-constructed from the value build() returned
Concat_operands(h, left, right) ==
    Only([bl \in {build(h, left)} |->
    Only([lg \in {MoveOut(bl.h, bl.r)} |->
    Only([br \in {build(lg.h, right)} |->
    Only([rg \in {MoveOut(br.h, br.r)} |->
        [h |-> rg.h, left_graph |-> lg.r, right_graph |-> rg.r]])])])])

\* Concat::build
Concat_build(h, left, right) ==
    IF left # NullAst /\ right # NullAst
    THEN Only([o \in {Concat_operands(h, left, right)} |->
         Only([m \in {NFA_merge(o.h, o.left_graph, o.right_graph)} |->
         Only([rv \in {NFA_move(m.h, o.left_graph)} |->
         Only([h1 \in {NFA_delete(rv.h, o.right_graph)} |->
             [h |-> NFA_delete(h1, o.left_graph), r |-> rv.r]])])])])
    ELSE NFA_new(h)

\* a star without the edge that skips the child
KleeneStar_build_as_plus(h, child) == build(h, KleenePlus(child))

\* KleeneStar::build
KleeneStar_build(h, child) ==
    IF child = NullAst THEN NFA_new(h)
    ELSE Only([res \in {NFA_new(h)} |->
         Only([b \in {build(res.h, child)} |->
         Only([cg \in {MoveOut(b.h, b.r)} |->
         Only([h1 \in {add_transition(cg.h, cg.h.nfa[res.r].input_,
                                      cg.h.nfa[res.r].output_)} |->
         Only([h2 \in {add_transition(h1, h1.nfa[res.r].input_,
                                      h1.nfa[cg.r].input_)} |->
         Only([h3 \in {add_transition(h2, h2.nfa[cg.r].output_,
                                      h2.nfa[cg.r].input_)} |->
         Only([h4 \in {add_transition(h3, h3.nfa[cg.r].output_,
                                      h3.nfa[res.r].output_)} |->
         Only([h5 \in {acquire_nodes(h4, res.r, cg.r)} |->
         Only([rv \in {NFA_move(h5, res.r)} |->
         Only([h6 \in {NFA_delete(rv.h, cg.r)} |->
             [h |-> NFA_delete(h6, res.r), r |-> rv.r]])])])])])])])])])])

\* a plus with an edge that skips the child
KleenePlus_build_as_star(h, child) == build(h, KleeneStar(child))

\* a plus that loops on the child's own fragment instead of wrapping it
KleenePlus_build_unwrapped(h, child) ==
    IF child = NullAst THEN NFA_new(h)
    ELSE Only([b \in {build(h, child)} |->
         Only([cg \in {MoveOut(b.h, b.r)} |->
         Only([h1 \in {add_transition(cg.h, cg.h.nfa[cg.r].output_,
                                      cg.h.nfa[cg.r].input_)} |->
             MoveOut(h1, cg.r)])])])

\* KleenePlus::build
KleenePlus_build(h, child) ==
    IF child = NullAst THEN NFA_new(h)
    ELSE Only([res \in {NFA_new(h)} |->
         Only([b \in {build(res.h, child)} |->
         Only([cg \in {MoveOut(b.h, b.r)} |->
         Only([h2 \in {add_transition(cg.h, cg.h.nfa[res.r].input_,
                                      cg.h.nfa[cg.r].input_)} |->
         Only([h3 \in {add_transition(h2, h2.nfa[cg.r].output_,
                                      h2.nfa[cg.r].input_)} |->
         Only([h4 \in {add_transition(h3, h3.nfa[cg.r].output_,
                                      h3.nfa[res.r].output_)} |->
         Only([h5 \in {acquire_nodes(h4, res.r, cg.r)} |->
         Only([rv \in {NFA_move(h5, res.r)} |->
         Only([h6 \in {NFA_delete(rv.h, cg.r)} |->
             [h |-> NFA_delete(h6, res.r), r |-> rv.r]])])])])])])])])])

\* an Optional without the edge that skips the child
Optional_build_required(h, child) == build(h, Subexpression(child))

\* Optional::build
Optional_build(h, child) ==
    IF child = NullAst THEN NFA_new(h)
    ELSE Only([b \in {build(h, child)} |->
         Only([cg \in {MoveOut(b.h, b.r)} |->
         Only([h1 \in {add_transition(cg.h, cg.h.nfa[cg.r].input_,
                                      cg.h.nfa[cg.r].output_)} |->
             MoveOut(h1, cg.r)])])])

\* a Subexpression that drops its child's automaton
Subexpression_build_empty(h, child) == NFA_new(h)

\* Subexpression::build
Subexpression_build(h, child) ==
    IF child = NullAst THEN NFA_new(h)
    ELSE Only([b \in {build(h, child)} |-> MoveOut(b.h, b.r)])

\* Leaf::build
Leaf_build(h, condition) ==
    Only([g \in {NFA_new(h)} |->
    Only([h1 \in {add_transition_if(g.h, g.h.nfa[g.r].input_,
                                    g.h.nfa[g.r].output_, condition)} |->
        MoveOut(h1, g.r)])])

\* ast::Node::build, dispatched on the dynamic type
build(h, ast) ==
    CASE ast.tag = "Leaf"          -> Leaf_build(h, ast.condition)
      [] ast.tag = "Choice"        -> Choice_build(h, ast.left, ast.right)
      [] ast.tag = "Concat"        -> Concat_build(h, ast.left, ast.right)
      [] ast.tag = "KleeneStar"    -> KleeneStar_build(h, ast.child)
      [] ast.tag = "KleenePlus"    -> KleenePlus_build(h, ast.child)
      [] ast.tag = "Optional"      -> Optional_build(h, ast.child)
      [] ast.tag = "Subexpression" -> Subexpression_build(h, ast.child)

-----------------------------------------------------------------------------
(* NfaRunner *)

\* a worklist loop that follows no epsilon edge
expand_empty_loop_seed(h, source, output) == output \cup (source \ {NULL})

RECURSIVE expand_empty_loop(_, _, _)
\* the while loop of NfaRunner::expand_empty; `source' never holds nullptr
\* but through the constructor, which is skipped by the loop
expand_empty_loop(h, source, output) ==
    IF source = {} THEN output
    ELSE LET current_node == CHOOSE n \in source : TRUE
             rest == source \ {current_node}
         IN IF current_node = NULL
            THEN expand_empty_loop(h, rest, output)
            ELSE LET out1 == output \cup {current_node}
                     adj  == {a \in h.node[current_node].empty_transitions_ :
                                 a \notin rest /\ a \notin out1}
                 IN expand_empty_loop(h, rest \cup adj, out1)

\* a closure that follows the epsilon edges of the seed nodes only
expand_empty_once(h, source) ==
    (source \ {NULL})
        \cup UNION {h.node[n].empty_transitions_ : n \in source \ {NULL}}

\* NfaRunner::expand_empty
expand_empty(h, source) == expand_empty_loop(h, source, {})

\* Node::next_nodes
next_nodes(h, this, c) ==
    {h.node[this].transitions_[i].target :
        i \in {j \in 1..Len(h.node[this].transitions_) :
                  Call(h.node[this].transitions_[j].condition, c)}}

\* expand without the epsilon closure of the nodes reached
expand_without_closure(h, source, c) ==
    UNION {next_nodes(h, n, c) : n \in source}

\* an expansion that carries the source nodes over
expand_carrying(h, source, c) ==
    expand_empty(h, source \cup UNION {next_nodes(h, n, c) : n \in source})

\* NfaRunner::expand
expand(h, source, c) ==
    expand_empty(h, UNION {next_nodes(h, n, c) : n \in source})

\* NfaRunner::set_state: the store and state_ afterwards
NfaRunner_set_state(h, state) == [h |-> h, state_ |-> expand_empty(h, state)]

\* NfaRunner::NfaRunner(nfa)
NfaRunner_new(h, nfa) == NfaRunner_set_state(h, {h.nfa[nfa].input_})

\* a step that removes the conditioned transitions it has looked at
NfaRunner_step_consuming(h, state, c) ==
    [h |-> [h EXCEPT !.node = Map([n \in DOMAIN @ |->
                                     IF n \in state
                                     THEN [@[n] EXCEPT !.transitions_ = <<>>]
                                     ELSE @[n]])],
     state_ |-> expand(h, state, c)]

\* NfaRunner::step: the store and state_ afterwards
NfaRunner_step(h, state, c) == [h |-> h, state_ |-> expand(h, state, c)]

\* NfaRunner::acceptable
acceptable(h, nfa, state) ==
    h.nfa[nfa].output_ # NULL /\ h.nfa[nfa].output_ \in state

RECURSIVE run(_, _, _)
\* state_ of a runner after step has been called on every character of s
run(h, state, s) ==
    IF s = <<>> THEN state
    ELSE run(h, expand(h, state, Head(s)), Tail(s))

\* A fresh NfaRunner on `nfa` stepped over all of s, then acceptable()
accepts(h, nfa, s) ==
    acceptable(h, nfa, run(h, expand_empty(h, {h.nfa[nfa].input_}), s))

-----------------------------------------------------------------------------
(* std::istringstream over the pattern text.  The stream is its string and  *)
(* the position of the next character.  A read at the end of the string    *)
(* returns EOF and leaves the stream failed for good: unget is only called *)
(* right after a get that returned a character, so no later read succeeds. *)

Stream(s) == [s |-> s, pos |-> 1]

\* std::istream::peek
peek(in) == IF in.pos <= Len(in.s) THEN in.s[in.pos] ELSE EOF

\* std::istream::get: the character read and the stream afterwards
get(in) ==
    IF in.pos <= Len(in.s)
    THEN [c |-> in.s[in.pos], in |-> [in EXCEPT !.pos = @ + 1]]
    ELSE [c |-> EOF, in |-> in]

\* std::istream::unget
unget(in) == [in EXCEPT !.pos = @ - 1]

-----------------------------------------------------------------------------
(* SimpleParser.  Every parse function yields the node it returns and the  *)
(* stream it leaves behind.                                                *)

\* SimpleParser::is_primary
is_primary(c) == c # ")" /\ c # "|" /\ c # EOF

\* a parse_quantifier that keeps the character it read when it is no
\* quantifier
parse_quantifier_consuming(in, child) ==
    LET g == get(in) IN
    IF g.c = "?" THEN [node |-> Optional(child), in |-> g.in]
    ELSE IF g.c = "*" THEN [node |-> KleeneStar(child), in |-> g.in]
    ELSE IF g.c = "+" THEN [node |-> KleenePlus(child), in |-> g.in]
    ELSE [node |-> child, in |-> g.in]

\* SimpleParser::parse_quantifier
parse_quantifier(in, child) ==
    LET g == get(in) IN
    IF g.c = "?" THEN [node |-> Optional(child), in |-> g.in]
    ELSE IF g.c = "*" THEN [node |-> KleeneStar(child), in |-> g.in]
    ELSE IF g.c = "+" THEN [node |-> KleenePlus(child), in |-> g.in]
    ELSE [node |-> child, in |-> IF g.c # EOF THEN unget(g.in) ELSE g.in]

\* for (; c <= d; c++) characters += c;  over the characters of the model
Range(c, d) ==
    LET lo == Code(c)
        hi == Promote(d)
    IN IF lo <= hi THEN SubSeq(CharOrder, lo, hi) ELSE <<>>

RECURSIVE parse_bracket_loop(_, _, _)
\* the while loop of SimpleParser::parse_bracket
parse_bracket_loop(in, c, characters) ==
    IF c = EOF \/ c = "]" THEN [characters |-> characters, in |-> in]
    ELSE IF c = "\\" /\ peek(in) # EOF
         THEN LET e == get(in)
                  n == get(e.in)
              IN parse_bracket_loop(n.in, n.c, Append(characters, e.c))
         ELSE IF peek(in) = "-"
              THEN LET m == get(in)
                       d == get(m.in)
                       n == get(d.in)
                   IN parse_bracket_loop(n.in, n.c,
                                         characters \o Range(c, ToChar(d.c)))
              ELSE LET n == get(in)
                   IN parse_bracket_loop(n.in, n.c, Append(characters, c))

\* The Leaf parse_bracket returns for a bracket without a leading ^
BracketLeaf(characters) == Leaf(FnFindNpos(characters))

\* The Leaf parse_bracket returns for a bracket with a leading ^
NegatedBracketLeaf(characters) == Leaf(FnFindNpos(characters))

\* SimpleParser::parse_bracket
parse_bracket(in) ==
    LET g == get(in)
        negate == (g.c = "^")
        first == IF g.c = "^" \/ g.c = "-" THEN get(g.in) ELSE g
        start == IF g.c = "-" THEN <<g.c>> ELSE <<>>
    IN Only([body \in {parse_bracket_loop(first.in, first.c, start)} |->
           [node |-> IF negate THEN NegatedBracketLeaf(body.characters)
                     ELSE BracketLeaf(body.characters),
            in |-> body.in]])

RECURSIVE parse_choice(_)
RECURSIVE parse_choice_loop(_, _)
RECURSIVE parse_concat_loop(_, _)

\* a parse_primary that takes a backslash for an escape even with nothing
\* after it
parse_primary_escaping(in) ==
    Only([g \in {get(in)} |->
    Only([atom \in {
            IF g.c = "\\"
            THEN LET e == get(g.in)
                 IN [node |-> SingleCharacter(e.c), in |-> e.in]
            ELSE IF g.c = "."
            THEN [node |-> Leaf(FnTrue), in |-> g.in]
            ELSE IF g.c = "["
            THEN parse_bracket(g.in)
            ELSE IF g.c = "("
            THEN LET q == IF peek(g.in) = "?" THEN get(g.in).in ELSE g.in
                     noncapture == peek(g.in) = "?" /\ peek(q) = ":"
                     in1 == IF noncapture THEN get(q).in ELSE q
                 IN Only([sub \in {parse_choice(in1)} |->
                        [node |-> IF noncapture THEN sub.node
                                  ELSE Subexpression(sub.node),
                         in |-> get(sub.in).in]])
            ELSE [node |-> SingleCharacter(g.c), in |-> g.in]} |->
        parse_quantifier(atom.in, atom.node)])])

\* SimpleParser::parse_primary
parse_primary(in) ==
    Only([g \in {get(in)} |->
    Only([atom \in {
            IF g.c = "\\" /\ peek(g.in) # EOF
            THEN LET e == get(g.in)
                 IN [node |-> SingleCharacter(e.c), in |-> e.in]
            ELSE IF g.c = "."
            THEN [node |-> Leaf(FnTrue), in |-> g.in]
            ELSE IF g.c = "["
            THEN parse_bracket(g.in)
            ELSE IF g.c = "("
            THEN LET q == IF peek(g.in) = "?" THEN get(g.in).in ELSE g.in
                     noncapture == peek(g.in) = "?" /\ peek(q) = ":"
                     in1 == IF noncapture THEN get(q).in ELSE q
                 IN Only([sub \in {parse_choice(in1)} |->
                        [node |-> IF noncapture THEN sub.node
                                  ELSE Subexpression(sub.node),
                         in |-> get(sub.in).in]])
            ELSE [node |-> SingleCharacter(g.c), in |-> g.in]} |->
        parse_quantifier(atom.in, atom.node)])])

\* the while loop of SimpleParser::parse_concat
parse_concat_loop(in, node) ==
    IF is_primary(peek(in))
    THEN Only([p \in {parse_primary(in)} |->
             parse_concat_loop(p.in, Concat(node, p.node))])
    ELSE [node |-> node, in |-> in]

\* SimpleParser::parse_concat
parse_concat(in) ==
    Only([p \in {parse_primary(in)} |-> parse_concat_loop(p.in, p.node)])

\* a loop that reads an alternative after every '|', the last one included
parse_choice_loop_to_the_end(in, node) ==
    IF peek(in) = "|"
    THEN LET in1 == get(in).in
         IN Only([r \in {parse_concat(in1)} |->
                parse_choice_loop(r.in, Choice(node, r.node))])
    ELSE [node |-> node, in |-> in]

\* the while loop of SimpleParser::parse_choice
parse_choice_loop(in, node) ==
    IF peek(in) = "|"
    THEN LET in1 == get(in).in
         IN IF peek(in1) = EOF
            THEN [node |-> node, in |-> in1]
            ELSE Only([r \in {parse_concat(in1)} |->
                     parse_choice_loop(r.in, Choice(node, r.node))])
    ELSE [node |-> node, in |-> in]

\* SimpleParser::parse_choice
parse_choice(in) ==
    Only([l \in {parse_concat(in)} |-> parse_choice_loop(l.in, l.node)])

\* SimpleParser::parse: a fresh istringstream is never in a failed state
SimpleParser_parse(in) == parse_choice(in).node

\* SimpleParser::error
SimpleParser_error == FALSE

-----------------------------------------------------------------------------
(* Parser and RegEx *)

\* The strategy object: SimpleParser, or a Parser whose parse() hands out a
\* tree assembled by the caller from the ast classes.
SimpleParser == [simple |-> TRUE, tree |-> NullAst]
TreeParser(tree) == [simple |-> FALSE, tree |-> tree]

\* Parser::parse (virtual)
Parser_parse(parser, input) ==
    IF parser.simple THEN SimpleParser_parse(Stream(input)) ELSE parser.tree

\* Parser::compile(std::istream&)
Parser_compile_stream(h, parser, input) ==
    Only([parsed \in {Parser_parse(parser, input)} |->
        IF parsed = NullAst THEN NFA_new(h)
        ELSE Only([b \in {build(h, parsed)} |->
             Only([nfa \in {MoveOut(b.h, b.r)} |->
                 MoveOut(nfa.h, nfa.r)])])])

\* Parser::compile(const std::string&)
Parser_compile(h, parser, input) ==
    Only([c \in {Parser_compile_stream(h, parser, input)} |->
        MoveOut(c.h, c.r)])

\* RegEx::compiled
RegEx_compiled(h, parser, expression) ==
    Only([c \in {Parser_compile(h, parser, expression)} |->
        MoveOut(c.h, c.r)])

\* a reset that keeps the object it holds
Reset_keeping(h, old, p) == [h |-> h, r |-> old]

\* std::shared_ptr<NFA>::reset(p): the sole owner deletes the old object
Reset(h, old, p) == [h |-> IF old # NULL THEN NFA_delete(h, old) ELSE h,
                     r |-> p]

\* RegEx::compile on a RegEx whose fields are (expression, compiled, parser)
RegEx_compile(h, expression, compiled, parser) ==
    Only([c \in {RegEx_compiled(h, parser, expression)} |->
        Reset(c.h, compiled, c.r)])

\* RegEx::full_match: the heap and compiled_ afterwards, and the value returned
RegEx_full_match(h, expression, compiled, parser, string) ==
    Only([c \in {IF compiled = NULL
                 THEN RegEx_compile(h, expression, compiled, parser)
                 ELSE [h |-> h, r |-> compiled]} |->
        [h |-> c.h, compiled |-> c.r, value |-> FALSE]])

-----------------------------------------------------------------------------
(* Inputs *)

\* Trees with `n' nodes over the given leaves; a null child counts as a node.
RECURSIVE TreesOfSize(_, _)
TreesOfSize(n, leaves) ==
    IF n = 1 THEN leaves
    ELSE LET sub == UNION {TreesOfSize(n - 1, leaves)} IN
         {KleeneStar(t) : t \in sub} \cup {KleenePlus(t) : t \in sub}
         \cup {Optional(t) : t \in sub} \cup {Subexpression(t) : t \in sub}
         \cup UNION {
              {Choice(l, r) : l \in TreesOfSize(i, leaves),
                              r \in TreesOfSize(n - 1 - i, leaves)}
              \cup {Concat(l, r) : l \in TreesOfSize(i, leaves),
                                   r \in TreesOfSize(n - 1 - i, leaves)}
              : i \in 1..(n - 2)}

Letters == {SingleCharacter("a"), SingleCharacter("b")}

\* The trees a caller hands to the tree parser
Asts ==
    UNION {TreesOfSize(n, Letters \cup {NullAst}) : n \in 1..MaxAstSize}
    \ {NullAst}

\* Pattern text of a tree without null children
RECURSIVE Unparse(_)
Group(t) == <<"(", "?", ":">> \o Unparse(t) \o <<")">>
Atom(t) == IF t.tag \in {"Leaf", "Subexpression"} THEN Unparse(t) ELSE Group(t)
Factor(t) == IF t.tag = "Choice" THEN Group(t) ELSE Unparse(t)
Unparse(t) ==
    CASE t.tag = "Leaf"          -> t.condition.arg
      [] t.tag = "Choice"        -> Unparse(t.left) \o <<"|">> \o Unparse(t.right)
      [] t.tag = "Concat"        -> Factor(t.left) \o Factor(t.right)
      [] t.tag = "KleeneStar"    -> Atom(t.child) \o <<"*">>
      [] t.tag = "KleenePlus"    -> Atom(t.child) \o <<"+">>
      [] t.tag = "Optional"      -> Atom(t.child) \o <<"?">>
      [] t.tag = "Subexpression" -> <<"(">> \o Unparse(t.child) \o <<")">>

\* Well-formed sub-patterns
WellFormed ==
    {Unparse(t) : t \in UNION {TreesOfSize(n, Letters) : n \in 1..(MaxAstSize - 1)}}

Capturing(x) == <<"(">> \o x \o <<")">>
NonCapturing(x) == <<"(", "?", ":">> \o x \o <<")">>

\* The end-to-end patterns and the bracket expressions
ExamplePatterns ==
    { <<"a">>, <<"a", "|", "b">>, <<"a", "b", "*">>, <<"a", "+">>, <<"a", "?">>,
      <<"[", "a", "b", "c", "]">>, <<"[", "^", "a", "b", "c", "]">>,
      <<"[", "a", "-", "c", "]">>, <<"[", "^", "a", "-", "c", "]">>,
      <<"[", "a", "]">>, <<"[", "^", "a", "]">>,
      <<"[", "-", "a", "]">>, <<"[", "^", "-", "a", "]">>,
      <<"[", "\\", "]", "a", "]">>, <<"[", "^", "\\", "]", "a", "]">> }

Patterns == ExamplePatterns

\* Every well-formed sub-pattern inside a capturing and a non-capturing group
GroupPatterns ==
    {Capturing(x) : x \in WellFormed} \cup {NonCapturing(x) : x \in WellFormed}

\* Characters of the input strings
TextChars == {"a", "b", "c", "d"}
AstChars == {"a", "b"}

-----------------------------------------------------------------------------
(* Actions *)

NotReturned == [called |-> FALSE, value |-> FALSE]

\* No second runner
NoRunner == [nfa_ |-> NULL, state_ |-> {}, text |-> <<>>]

\* RegEx::set_expression.  A runner refers to the compiled automaton, so the
\* driver destroys its runner before it lets the RegEx drop the automaton.
SetExpression(p) ==
    /\ nfa_ = NULL /\ peer.nfa_ = NULL
    /\ expression_' = p
    /\ \E c \in {Reset(heap, compiled_, NULL)} :
          /\ heap' = c.h
          /\ compiled_' = c.r
    /\ returned' = NotReturned
    /\ last' = [op |-> "set_expression", arg |-> p]
    /\ UNCHANGED <<parser_, nfa_, state_, text, peer>>
    /\ ContainersUnchanged

\* RegEx::compile
Compile ==
    /\ nfa_ = NULL /\ peer.nfa_ = NULL
    /\ \E c \in {RegEx_compile(heap, expression_, compiled_, parser_)} :
          /\ heap' = c.h
          /\ compiled_' = c.r
    /\ returned' = NotReturned
    /\ last' = [op |-> "compile"]
    /\ UNCHANGED <<expression_, parser_, nfa_, state_, text, peer>>
    /\ ContainersUnchanged

\* RegEx::full_match(text)
FullMatch ==
    /\ \E m \in {RegEx_full_match(heap, expression_, compiled_, parser_, text)} :
          /\ heap' = m.h
          /\ compiled_' = m.compiled
          /\ returned' = [called |-> TRUE, value |-> m.value]
    /\ last' = [op |-> "full_match"]
    /\ UNCHANGED <<expression_, parser_, nfa_, state_, text, peer>>
    /\ ContainersUnchanged

\* NfaRunner::NfaRunner(*compiled_)
RunnerNew ==
    /\ nfa_ = NULL
    /\ compiled_ # NULL
    /\ nfa_' = compiled_
    /\ \E r \in {NfaRunner_new(heap, compiled_)} :
          /\ heap' = r.h
          /\ state_' = r.state_
    /\ text' = <<>>
    /\ returned' = NotReturned
    /\ UNCHANGED <<expression_, compiled_, parser_, last, peer>>
    /\ ContainersUnchanged

\* NfaRunner::step(c)
Step(c) ==
    /\ nfa_ # NULL
    /\ Len(text) < MaxLen
    /\ \E r \in {NfaRunner_step(heap, state_, c)} :
          /\ heap' = r.h
          /\ state_' = r.state_
    /\ text' = Append(text, c)
    /\ returned' = NotReturned
    /\ UNCHANGED <<expression_, compiled_, parser_, nfa_, last, peer>>
    /\ ContainersUnchanged

\* NfaRunner::~NfaRunner
RunnerDelete ==
    /\ nfa_ # NULL
    /\ nfa_' = NULL
    /\ state_' = {}
    /\ text' = <<>>
    /\ returned' = NotReturned
    /\ UNCHANGED <<expression_, compiled_, parser_, heap, last, peer>>
    /\ ContainersUnchanged

\* NfaRunner::NfaRunner(*compiled_) of a second caller
PeerNew ==
    /\ peer.nfa_ = NULL
    /\ compiled_ # NULL
    /\ \E r \in {NfaRunner_new(heap, compiled_)} :
          /\ heap' = r.h
          /\ peer' = [nfa_ |-> compiled_, state_ |-> r.state_, text |-> <<>>]
    /\ UNCHANGED <<expression_, compiled_, parser_, nfa_, state_, text,
                   returned, last>>
    /\ ContainersUnchanged

\* NfaRunner::step(c) of the second caller
PeerStep(c) ==
    /\ peer.nfa_ # NULL
    /\ Len(peer.text) < MaxLen
    /\ \E r \in {NfaRunner_step(heap, peer.state_, c)} :
          /\ heap' = r.h
          /\ peer' = [peer EXCEPT !.state_ = r.state_,
                                  !.text = Append(@, c)]
    /\ UNCHANGED <<expression_, compiled_, parser_, nfa_, state_, text,
                   returned, last>>
    /\ ContainersUnchanged

\* NfaRunner::~NfaRunner of the second caller
PeerDelete ==
    /\ peer.nfa_ # NULL
    /\ peer' = NoRunner
    /\ UNCHANGED <<expression_, compiled_, parser_, heap, nfa_, state_, text,
                   returned, last>>
    /\ ContainersUnchanged

\* D = compiled_->duplicate(), D a local object of the driver; at most one
\* copy is alive
Duplicate ==
    /\ compiled_ # NULL
    /\ nfa_ = NULL /\ peer.nfa_ = NULL
    /\ DOMAIN heap.nfa = {compiled_}
    /\ \E d \in {NFA_duplicate(heap, compiled_)} :
          /\ heap' = d.h
          /\ last' = [op |-> "duplicate", this |-> compiled_, value |-> d.r,
                      translation |-> d.translation, before |-> heap]
    /\ returned' = NotReturned
    /\ UNCHANGED <<expression_, compiled_, parser_, nfa_, state_, text, peer>>
    /\ ContainersUnchanged

\* D goes out of scope
DuplicateDelete ==
    /\ last.op = "duplicate"
    /\ nfa_ = NULL /\ peer.nfa_ = NULL
    /\ heap' = NFA_delete(heap, last.value)
    /\ last' = [op |-> "~NFA", this |-> last.value]
    /\ returned' = NotReturned
    /\ UNCHANGED <<expression_, compiled_, parser_, nfa_, state_, text, peer>>
    /\ ContainersUnchanged

\* NfaRunner::NfaRunner(D) on the copy the last call returned
RunnerNewCopy ==
    /\ nfa_ = NULL
    /\ last.op = "duplicate"
    /\ nfa_' = last.value
    /\ \E r \in {NfaRunner_new(heap, last.value)} :
          /\ heap' = r.h
          /\ state_' = r.state_
    /\ text' = <<>>
    /\ returned' = NotReturned
    /\ UNCHANGED <<expression_, compiled_, parser_, last, peer>>
    /\ ContainersUnchanged

-----------------------------------------------------------------------------
(* Specification of a RegEx with the default parser *)

\* RegEx::RegEx(expression, nullptr)
Init ==
    /\ expression_ \in Patterns
    /\ parser_ = SimpleParser
    /\ compiled_ = NULL
    /\ heap = EmptyHeap
    /\ nfa_ = NULL
    /\ state_ = {}
    /\ text = <<>>
    /\ returned = NotReturned
    /\ last = [op |-> "RegEx"]
    /\ peer = NoRunner
    /\ NoContainer

Next ==
    \/ \E p \in {<<"a">>, <<"a", "b", "*">>} : SetExpression(p)
    \/ Compile
    \/ FullMatch
    \/ RunnerNew
    \/ \E c \in TextChars : Step(c)
    \/ RunnerDelete

Spec == Init /\ [][Next]_vars

(* Specification of a RegEx whose parser hands out a caller-built tree *)

\* RegEx::RegEx("", parser)
InitAst ==
    /\ expression_ = <<>>
    /\ parser_ \in {TreeParser(t) : t \in Asts}
    /\ compiled_ = NULL
    /\ heap = EmptyHeap
    /\ nfa_ = NULL
    /\ state_ = {}
    /\ text = <<>>
    /\ returned = NotReturned
    /\ last = [op |-> "RegEx"]
    /\ peer = NoRunner
    /\ NoContainer

NextAst ==
    \/ Compile
    \/ RunnerNew
    \/ \E c \in AstChars : Step(c)
    \/ RunnerDelete

SpecAst == InitAst /\ [][NextAst]_vars

(* Specification of a RegEx with the default parser over grouped patterns; *)
(* its steps are those of NextAst                                          *)

\* RegEx::RegEx(expression, nullptr)
InitGroup ==
    /\ expression_ \in GroupPatterns
    /\ parser_ = SimpleParser
    /\ compiled_ = NULL
    /\ heap = EmptyHeap
    /\ nfa_ = NULL
    /\ state_ = {}
    /\ text = <<>>
    /\ returned = NotReturned
    /\ last = [op |-> "RegEx"]
    /\ peer = NoRunner
    /\ NoContainer

SpecGroup == InitGroup /\ [][NextAst]_vars

(* Specification of a RegEx whose automaton the driver duplicates *)

\* The trees compiled before a duplicate(): no null children
DupAsts == UNION {TreesOfSize(n, Letters) : n \in 1..(MaxAstSize - 1)}

\* RegEx::RegEx("", parser)
InitDup ==
    /\ expression_ = <<>>
    /\ parser_ \in {TreeParser(t) : t \in DupAsts}
    /\ compiled_ = NULL
    /\ heap = EmptyHeap
    /\ nfa_ = NULL
    /\ state_ = {}
    /\ text = <<>>
    /\ returned = NotReturned
    /\ last = [op |-> "RegEx"]
    /\ peer = NoRunner
    /\ NoContainer

NextDup ==
    \/ Compile
    \/ Duplicate
    \/ DuplicateDelete
    \/ RunnerNew
    \/ RunnerNewCopy
    \/ \E c \in AstChars : Step(c)
    \/ RunnerDelete

SpecDup == InitDup /\ [][NextDup]_vars

-----------------------------------------------------------------------------
(* Specification of a program that calls the Node and NFA interface         *)
(* directly.  It keeps no RegEx and no runner.  Automata stay alive to the  *)
(* end of the program, so no node names a destroyed automaton.              *)

\* NFA objects the program holds at most
MaxGraphs == 2
\* Node objects alive at most
MaxNodes == 3
Graphs == DOMAIN heap.nfa
Nodes == DOMAIN heap.node

\* no call has ended the program
Running == last.op # "merge fault"

NoRegEx ==
    UNCHANGED <<expression_, compiled_, parser_, nfa_, state_, text, returned,
                peer, table, trie, rbtree>>

\* `last' after a call that has returned
OtherCall == [op |-> "call"]

\* NFA g;
NewGraph ==
    /\ Running
    /\ Cardinality(Graphs) < MaxGraphs
    /\ Cardinality(Nodes) + 2 <= MaxNodes
    /\ heap' = NFA_new(heap).h
    /\ last' = OtherCall
    /\ NoRegEx

\* new Node(graph), graph an automaton or null
NewNode(graph) ==
    /\ Running
    /\ Cardinality(Nodes) < MaxNodes
    /\ heap' = Node_new(heap, graph).h
    /\ last' = OtherCall
    /\ NoRegEx

\* g.insert_node(n)
InsertNode(g, n) ==
    /\ Running
    /\ heap' = insert_node(heap, g, n)
    /\ last' = OtherCall
    /\ NoRegEx

\* g.remove_node(n)
RemoveNode(g, n) ==
    /\ Running
    /\ heap' = remove_node(heap, g, n)
    /\ last' = OtherCall
    /\ NoRegEx

\* g.set_input(n)
SetInput(g, n) ==
    /\ Running
    /\ heap' = set_input(heap, g, n)
    /\ last' = OtherCall
    /\ NoRegEx

\* g.set_output(n)
SetOutput(g, n) ==
    /\ Running
    /\ heap' = set_output(heap, g, n)
    /\ last' = OtherCall
    /\ NoRegEx

\* g.clear()
Clear(g) ==
    /\ Running
    /\ heap' = clear(heap, g)
    /\ last' = OtherCall
    /\ NoRegEx

\* a.merge(b)
Merge(a, b) ==
    /\ Running
    /\ \E m \in {NFA_merge(heap, a, b)} :
          /\ heap' = m.h
          /\ last' = IF m.fault THEN [op |-> "merge fault"] ELSE OtherCall
    /\ NoRegEx

\* a.acquire_nodes(b).  With b = a the range inserted into nodes_ is a range
\* of nodes_ itself, which std::unordered_set::insert does not allow; the
\* program does not make that call.
AcquireNodes(a, b) ==
    /\ Running
    /\ a # b
    /\ heap' = acquire_nodes(heap, a, b)
    /\ last' = OtherCall
    /\ NoRegEx

\* NFA g(std::move(b));
MoveConstruct(b) ==
    /\ Running
    /\ Cardinality(Graphs) < MaxGraphs
    /\ heap' = NFA_move(heap, b).h
    /\ last' = OtherCall
    /\ NoRegEx

\* a = std::move(b); a and b distinct objects
MoveAssign(a, b) ==
    /\ Running
    /\ a # b
    /\ heap' = NFA_move_assign(heap, a, b)
    /\ last' = OtherCall
    /\ NoRegEx

\* NFA d = a.duplicate();
DuplicateOf(a) ==
    /\ Running
    /\ Cardinality(Graphs) < MaxGraphs
    /\ Cardinality(Nodes) + 2 + Cardinality(heap.nfa[a].nodes_) <= MaxNodes
    /\ heap' = NFA_duplicate(heap, a).h
    /\ last' = OtherCall
    /\ NoRegEx

\* delete n;
DeleteNode(n) ==
    /\ Running
    /\ heap' = Node_delete(heap, n)
    /\ last' = OtherCall
    /\ NoRegEx

\* int main()
InitGraph ==
    /\ expression_ = <<>>
    /\ parser_ = NULL
    /\ compiled_ = NULL
    /\ heap = EmptyHeap
    /\ nfa_ = NULL
    /\ state_ = {}
    /\ text = <<>>
    /\ returned = NotReturned
    /\ last = [op |-> "main"]
    /\ peer = NoRunner
    /\ NoContainer

\* the calls single ownership is stated for
NextOwn ==
    \/ NewGraph
    \/ NewNode(NULL)
    \/ \E g \in Graphs, n \in Nodes : InsertNode(g, n)
    \/ \E g \in Graphs, n \in Nodes : RemoveNode(g, n)
    \/ \E g \in Graphs, n \in Nodes : SetInput(g, n)
    \/ \E g \in Graphs, n \in Nodes : SetOutput(g, n)
    \/ \E g \in Graphs : Clear(g)
    \/ \E a, b \in Graphs : Merge(a, b)
    \/ \E a, b \in Graphs : AcquireNodes(a, b)
    \/ \E b \in Graphs : MoveConstruct(b)
    \/ \E a, b \in Graphs : MoveAssign(a, b)

SpecOwn == InitGraph /\ [][NextOwn]_vars

\* every public call
NextGraph ==
    \/ NewGraph
    \/ \E g \in Graphs \cup {NULL} : NewNode(g)
    \/ \E g \in Graphs, n \in Nodes : InsertNode(g, n)
    \/ \E g \in Graphs, n \in Nodes : RemoveNode(g, n)
    \/ \E g \in Graphs, n \in Nodes : SetInput(g, n)
    \/ \E g \in Graphs, n \in Nodes : SetOutput(g, n)
    \/ \E g \in Graphs : Clear(g)
    \/ \E a, b \in Graphs : Merge(a, b)
    \/ \E a, b \in Graphs : AcquireNodes(a, b)
    \/ \E b \in Graphs : MoveConstruct(b)
    \/ \E a, b \in Graphs : MoveAssign(a, b)
    \/ \E a \in Graphs : DuplicateOf(a)
    \/ \E n \in Nodes : DeleteNode(n)

SpecGraph == InitGraph /\ [][NextGraph]_vars

-----------------------------------------------------------------------------
(* Specification of a RegEx with the default parser over every pattern     *)
(* text, well formed or not                                                *)

\* Length of a pattern text at most
MaxPatLen == 3

\* Characters of the pattern texts: a letter, and the characters that open
\* or close a group, a bracket, an alternative, an escape, a repetition and
\* a range
PatChars == {"a", "(", ")", "[", "]", "|", "\\", "*", "-"}

RECURSIVE TextsOfLength(_, _)
TextsOfLength(n, chars) ==
    IF n = 0 THEN {<<>>}
    ELSE {Append(t, c) : t \in TextsOfLength(n - 1, chars), c \in chars}

AnyPatterns == UNION {TextsOfLength(n, PatChars) : n \in 0..MaxPatLen}

\* RegEx::RegEx(expression, nullptr)
InitAny ==
    /\ expression_ \in AnyPatterns
    /\ parser_ = SimpleParser
    /\ compiled_ = NULL
    /\ heap = EmptyHeap
    /\ nfa_ = NULL
    /\ state_ = {}
    /\ text = <<>>
    /\ returned = NotReturned
    /\ last = [op |-> "RegEx"]
    /\ peer = NoRunner
    /\ NoContainer

NextAny ==
    \/ Compile
    \/ FullMatch

SpecAny == InitAny /\ [][NextAny]_vars

-----------------------------------------------------------------------------
(* Specification of a RegEx whose automaton two callers run, each with its *)
(* own NfaRunner; their calls interleave in any order                      *)

NextShare ==
    \/ Compile
    \/ RunnerNew
    \/ \E c \in AstChars : Step(c)
    \/ RunnerDelete
    \/ PeerNew
    \/ \E c \in AstChars : PeerStep(c)
    \/ PeerDelete

SpecShare == Init /\ [][NextShare]_vars

-----------------------------------------------------------------------------
(* Properties *)

\* The verdict of the live runner
RunnerAccepts == acceptable(heap, nfa_, state_)

\* Does the automaton the default parser compiles from pattern p accept s?
PatternAccepts(p, s) ==
    Only([c \in {Parser_compile(EmptyHeap, SimpleParser, p)} |->
        accepts(c.h, c.r, s)])

\* Does the automaton built from the tree t accept s?
AstAccepts(t, s) ==
    Only([b \in {build(EmptyHeap, t)} |-> accepts(b.h, b.r, s)])

\* C1: full_match(s) returns true exactly when a runner on the compiled
\* automaton, stepped over every character of s, ends acceptable.
C1_FullMatchIsRunnerVerdict ==
    returned.called =>
        returned.value = IF nfa_ # NULL THEN RunnerAccepts
                         ELSE accepts(heap, compiled_, text)

\* The end-to-end cases of C2: pattern, input, expected verdict
C2_Cases ==
    { [p |-> <<"a">>, s |-> <<"a">>, ok |-> TRUE],
      [p |-> <<"a">>, s |-> <<>>, ok |-> FALSE],
      [p |-> <<"a">>, s |-> <<"b">>, ok |-> FALSE],
      [p |-> <<"a">>, s |-> <<"a", "a">>, ok |-> FALSE],
      [p |-> <<"a", "|", "b">>, s |-> <<"a">>, ok |-> TRUE],
      [p |-> <<"a", "|", "b">>, s |-> <<"b">>, ok |-> TRUE],
      [p |-> <<"a", "|", "b">>, s |-> <<"a", "b">>, ok |-> FALSE],
      [p |-> <<"a", "|", "b">>, s |-> <<>>, ok |-> FALSE],
      [p |-> <<"a", "|", "b">>, s |-> <<"c">>, ok |-> FALSE],
      [p |-> <<"a", "b", "*">>, s |-> <<"a">>, ok |-> TRUE],
      [p |-> <<"a", "b", "*">>, s |-> <<"a", "b">>, ok |-> TRUE],
      [p |-> <<"a", "b", "*">>, s |-> <<"a", "b", "b">>, ok |-> TRUE],
      [p |-> <<"a", "b", "*">>, s |-> <<"b">>, ok |-> FALSE],
      [p |-> <<"a", "b", "*">>, s |-> <<>>, ok |-> FALSE],
      [p |-> <<"a", "+">>, s |-> <<"a">>, ok |-> TRUE],
      [p |-> <<"a", "+">>, s |-> <<"a", "a">>, ok |-> TRUE],
      [p |-> <<"a", "+">>, s |-> <<>>, ok |-> FALSE],
      [p |-> <<"a", "?">>, s |-> <<>>, ok |-> TRUE],
      [p |-> <<"a", "?">>, s |-> <<"a">>, ok |-> TRUE],
      [p |-> <<"a", "?">>, s |-> <<"a", "a">>, ok |-> FALSE] }

\* C2: with the default parser and a runner stepped over the whole input,
\* "a", "a|b", "ab*", "a+" and "a?" accept and reject the listed inputs.
C2_EndToEndCases ==
    nfa_ # NULL =>
        \A k \in C2_Cases :
            (expression_ = k.p /\ text = k.s) => (RunnerAccepts = k.ok)

C2_Witness ==
    /\ nfa_ # NULL
    /\ expression_ = <<"a", "b", "*">>
    /\ text = <<"a", "b", "b">>
    /\ RunnerAccepts

\* Bodies of bracket expressions and the character set each one lists
BracketBodies ==
    { [body |-> <<"a", "b", "c">>, set |-> {"a", "b", "c"}],
      [body |-> <<"a", "-", "c">>, set |-> {"a", "b", "c"}],
      [body |-> <<"a">>, set |-> {"a"}],
      [body |-> <<"-", "a">>, set |-> {"-", "a"}],
      [body |-> <<"\\", "]", "a">>, set |-> {"]", "a"}] }

PlainBracket(body) == <<"[">> \o body \o <<"]">>
NegatedBracket(body) == <<"[", "^">> \o body \o <<"]">>

\* C3: a bracket expression without a leading ^ accepts exactly the
\* one-character strings whose character is in the listed set.
C3_BracketIsMemberOfSet ==
    nfa_ # NULL =>
        \A b \in BracketBodies :
            expression_ = PlainBracket(b.body) =>
                (RunnerAccepts <=> (Len(text) = 1 /\ text[1] \in b.set))

\* C4: a bracket expression with a leading ^ accepts exactly the one-character
\* strings whose character is not in the set, and on every one-character
\* string its verdict is the opposite of the same bracket without the ^.
C4_NegatedBracketFlipsPolarity ==
    nfa_ # NULL =>
        \A b \in BracketBodies :
            expression_ = NegatedBracket(b.body) =>
                /\ RunnerAccepts <=> (Len(text) = 1 /\ text[1] \notin b.set)
                /\ Len(text) = 1 =>
                       (RunnerAccepts # PatternAccepts(PlainBracket(b.body), text))

\* The tree the caller's parser hands to the compiler
Tree == parser_.tree

Prefix(s, k) == SubSeq(s, 1, k)
Suffix(s, k) == SubSeq(s, k + 1, Len(s))

\* s is a concatenation of zero or more strings the automaton of t accepts
RECURSIVE StarOf(_, _)
StarOf(t, s) ==
    \/ s = <<>>
    \/ \E k \in 1..Len(s) : AstAccepts(t, Prefix(s, k)) /\ StarOf(t, Suffix(s, k))

\* s is a concatenation of one or more strings the automaton of t accepts
PlusOf(t, s) ==
    \E k \in 0..Len(s) : AstAccepts(t, Prefix(s, k)) /\ StarOf(t, Suffix(s, k))

\* C5: the automaton of Concat(A, B) accepts s exactly when s splits into
\* s1 s2 with A's automaton accepting s1 and B's accepting s2.
C5_ConcatLaw ==
    (nfa_ # NULL /\ Tree.tag = "Concat"
        /\ Tree.left # NullAst /\ Tree.right # NullAst) =>
        (RunnerAccepts <=>
            \E k \in 0..Len(text) : /\ AstAccepts(Tree.left, Prefix(text, k))
                                    /\ AstAccepts(Tree.right, Suffix(text, k)))

C5_Witness ==
    /\ nfa_ # NULL
    /\ Tree = Concat(SingleCharacter("a"), KleeneStar(SingleCharacter("b")))
    /\ text = <<"a", "b", "b">>
    /\ RunnerAccepts

\* C6: the automaton of Choice(L, R) accepts s exactly when L's or R's does.
C6_ChoiceLaw ==
    (nfa_ # NULL /\ Tree.tag = "Choice"
        /\ Tree.left # NullAst /\ Tree.right # NullAst) =>
        (RunnerAccepts <=>
            (AstAccepts(Tree.left, text) \/ AstAccepts(Tree.right, text)))

C6_Witness ==
    /\ nfa_ # NULL
    /\ Tree = Choice(SingleCharacter("a"), KleenePlus(SingleCharacter("b")))
    /\ text = <<"b", "b">>
    /\ RunnerAccepts

\* C7: the automaton of KleeneStar(A) accepts s exactly when s is a
\* concatenation of zero or more strings A's automaton accepts; it accepts
\* the empty string.
C7_StarLaw ==
    (nfa_ # NULL /\ Tree.tag = "KleeneStar" /\ Tree.child # NullAst) =>
        /\ RunnerAccepts <=> StarOf(Tree.child, text)
        /\ text = <<>> => RunnerAccepts

C7_Witness ==
    /\ nfa_ # NULL
    /\ Tree = KleeneStar(Concat(SingleCharacter("a"), SingleCharacter("b")))
    /\ text = <<>>
    /\ RunnerAccepts

\* C8: the automaton of KleenePlus(A) accepts s exactly when s is a
\* concatenation of one or more strings A's automaton accepts; it accepts
\* the empty string only if A's automaton does.
C8_PlusLaw ==
    (nfa_ # NULL /\ Tree.tag = "KleenePlus" /\ Tree.child # NullAst) =>
        /\ RunnerAccepts <=> PlusOf(Tree.child, text)
        /\ text = <<>> => (RunnerAccepts <=> AstAccepts(Tree.child, <<>>))

C8_Witness ==
    /\ nfa_ # NULL
    /\ Tree = KleenePlus(Choice(SingleCharacter("a"), SingleCharacter("b")))
    /\ text = <<"a", "b", "a">>
    /\ RunnerAccepts

\* The language a tree denotes, with Optional(A) read as "empty or A".  A
\* null child denotes no string, and so does a node whose build gives up on
\* a null child.
RECURSIVE Matches(_, _)
RECURSIVE MatchesStar(_, _)
Matches(t, s) ==
    CASE t.tag = "nullptr"       -> FALSE
      [] t.tag = "Leaf"          -> Len(s) = 1 /\ Call(t.condition, s[1])
      [] t.tag = "Choice"        -> Matches(t.left, s) \/ Matches(t.right, s)
      [] t.tag = "Concat"        ->
            \E k \in 0..Len(s) : /\ Matches(t.left, Prefix(s, k))
                                 /\ Matches(t.right, Suffix(s, k))
      [] t.tag = "KleeneStar"    -> t.child # NullAst /\ MatchesStar(t.child, s)
      [] t.tag = "KleenePlus"    ->
            \E k \in 0..Len(s) : /\ Matches(t.child, Prefix(s, k))
                                 /\ MatchesStar(t.child, Suffix(s, k))
      [] t.tag = "Optional"      ->
            t.child # NullAst /\ (s = <<>> \/ Matches(t.child, s))
      [] t.tag = "Subexpression" -> Matches(t.child, s)

MatchesStar(t, s) ==
    \/ s = <<>>
    \/ \E k \in 1..Len(s) : Matches(t, Prefix(s, k)) /\ MatchesStar(t, Suffix(s, k))

\* Does the tree hold an Optional node with a child?
RECURSIVE HasOptional(_)
HasOptional(t) ==
    CASE t.tag \in {"nullptr", "Leaf"} -> FALSE
      [] t.tag \in {"Choice", "Concat"} -> HasOptional(t.left) \/ HasOptional(t.right)
      [] t.tag = "Optional" -> t.child # NullAst
      [] OTHER -> HasOptional(t.child)

\* C9: the automaton of Optional(A) accepts s exactly when s is empty or A's
\* automaton accepts s, and a tree with an Optional nested under or over
\* Concat, Choice, KleeneStar or KleenePlus accepts exactly the language it
\* denotes with Optional(A) read as "empty or A".
C9_OptionalLaw ==
    nfa_ # NULL =>
        /\ (Tree.tag = "Optional" /\ Tree.child # NullAst) =>
               (RunnerAccepts <=> (text = <<>> \/ AstAccepts(Tree.child, text)))
        /\ HasOptional(Tree) => (RunnerAccepts <=> Matches(Tree, text))

C9_Witness ==
    /\ nfa_ # NULL
    /\ Tree = Concat(Optional(SingleCharacter("a")), SingleCharacter("b"))
    /\ text = <<"b">>
    /\ RunnerAccepts

\* The graph an NFA object owns: its nodes with their transitions, its input
\* and its output
Fragment(b) ==
    [nodes   |-> [n \in b.h.nfa[b.r].nodes_ |->
                     [transitions_       |-> b.h.node[n].transitions_,
                      empty_transitions_ |-> b.h.node[n].empty_transitions_]],
     input_  |-> b.h.nfa[b.r].input_,
     output_ |-> b.h.nfa[b.r].output_]

\* C10: for a well-formed X the automata of "(X)", "(?:X)" and "X" accept
\* the same strings: "(X)" parses to a Subexpression around the tree of X,
\* "(?:X)" to the tree of X itself, and Subexpression::build returns the
\* fragment its child builds, node for node.
C10_GroupingTransparency ==
    \A x \in WellFormed :
        expression_ \in {Capturing(x), NonCapturing(x)} =>
            LET t == SimpleParser_parse(Stream(x)) IN
            /\ SimpleParser_parse(Stream(Capturing(x))) = Subexpression(t)
            /\ SimpleParser_parse(Stream(NonCapturing(x))) = t
            /\ Fragment(build(EmptyHeap, Subexpression(t)))
                   = Fragment(build(EmptyHeap, t))
            /\ nfa_ # NULL => (RunnerAccepts <=> PatternAccepts(x, text))

C10_Witness ==
    /\ nfa_ # NULL
    /\ expression_ = Capturing(<<"a", "b">>)
    /\ text = <<"a", "b">>
    /\ RunnerAccepts

\* C11: after D = A.duplicate() on a compiled automaton A, D's input and
\* output are the copies of A's input and output, and a runner on D accepts
\* the input it was fed exactly when a runner on A accepts it.
C11_DuplicateBehavesAlike ==
    last.op = "duplicate" =>
        LET A == last.this
            D == last.value
        IN /\ heap.nfa[A].input_ \in DOMAIN last.translation
           /\ heap.nfa[D].input_ = last.translation[heap.nfa[A].input_]
           /\ heap.nfa[A].output_ \in DOMAIN last.translation
           /\ heap.nfa[D].output_ = last.translation[heap.nfa[A].output_]
           /\ nfa_ = D => (RunnerAccepts <=> accepts(heap, A, text))

\* The nodes every edge of node n leads to
Targets(h, n) ==
    h.node[n].empty_transitions_
    \cup {h.node[n].transitions_[i].target : i \in 1..Len(h.node[n].transitions_)}

\* C12: after D = A.duplicate() the node sets of D and A are disjoint, every
\* edge of every node of D leads to a node of D, and A's nodes, edges, input
\* and output are what they were before the call.
C12_DuplicateSharesNothing ==
    last.op = "duplicate" =>
        LET A == last.this
            D == last.value
        IN /\ heap.nfa[D].nodes_ \cap heap.nfa[A].nodes_ = {}
           /\ \A n \in heap.nfa[D].nodes_ : Targets(heap, n) \subseteq heap.nfa[D].nodes_
           /\ heap.nfa[A] = last.before.nfa[A]
           /\ \A n \in last.before.nfa[A].nodes_ :
                 n \in DOMAIN heap.node /\ heap.node[n] = last.before.node[n]

C12_Witness ==
    /\ last.op = "duplicate"
    /\ parser_.tree = KleeneStar(SingleCharacter("a"))
    /\ Cardinality(heap.nfa[last.value].nodes_)
          = Cardinality(heap.nfa[last.this].nodes_) + 2
    /\ \E n \in heap.nfa[last.value].nodes_ : Targets(heap, n) # {}

\* C13: merge is destructive on its argument: whenever A.merge(B) returns
\* true, afterwards B owns no nodes, B.input() and B.output() are null,
\* A.output() is the node that was B's output, and A.input() is unchanged.
\* Stated of the call made in any reachable state on any two automata.
C13_MergeEmptiesArgument ==
    \A a, b \in Graphs :
       Only([m \in {NFA_merge(heap, a, b)} |->
           (~m.fault /\ m.r) =>
              /\ m.h.nfa[b].nodes_ = {}
              /\ m.h.nfa[b].input_ = NULL
              /\ m.h.nfa[b].output_ = NULL
              /\ m.h.nfa[a].output_ = heap.nfa[b].output_
              /\ m.h.nfa[a].input_ = heap.nfa[a].input_])

\* C14: A.merge(B) returns false and leaves both automata unchanged whenever
\* B is A itself, or A has a null input or a null output, or B has a null
\* input or a null output.  Stated of the call made in any reachable state.
C14_MergeRefusesIncomplete ==
    \A a, b \in Graphs :
       (\/ b = a
        \/ heap.nfa[a].input_ = NULL
        \/ heap.nfa[a].output_ = NULL
        \/ heap.nfa[b].input_ = NULL
        \/ heap.nfa[b].output_ = NULL)
       => Only([m \in {NFA_merge(heap, a, b)} |->
              ~m.fault /\ ~m.r /\ m.h = heap])

\* g.insert_node(n) takes n from every other automaton that owns it, and
\* resets the input or output of that automaton when n was it
InsertTakesOver(g, n) ==
    Only([after \in {insert_node(heap, g, n)} |->
        \A p \in Graphs \ {g} :
           n \in heap.nfa[p].nodes_ =>
              /\ n \in after.nfa[g].nodes_
              /\ after.nfa[p].nodes_ = heap.nfa[p].nodes_ \ {n}
              /\ after.nfa[p].input_ =
                    IF heap.nfa[p].input_ = n THEN NULL ELSE heap.nfa[p].input_
              /\ after.nfa[p].output_ =
                    IF heap.nfa[p].output_ = n THEN NULL
                    ELSE heap.nfa[p].output_])

\* C15: single ownership: after any sequence of insert_node, remove_node,
\* set_input, set_output, merge, acquire_nodes, move construction, move
\* assignment and clear, the node sets of distinct automata are disjoint;
\* inserting a node owned by another automaton removes it from that automaton
\* and clears that automaton's input or output designation if the node held
\* it; remove_node on a node the automaton does not own changes nothing.
C15_SingleOwnership ==
    /\ \A a, b \in Graphs :
          a # b => heap.nfa[a].nodes_ \cap heap.nfa[b].nodes_ = {}
    /\ \A g \in Graphs, n \in Nodes :
          /\ InsertTakesOver(g, n)
          /\ n \notin heap.nfa[g].nodes_ => remove_node(heap, g, n) = heap

\* one automaton owns every node, its input among them, another owns none;
\* insert_node into the second moves the input and resets it in the first
C15_Witness ==
    \E g, p \in Graphs :
       /\ g # p
       /\ heap.nfa[g].nodes_ = {}
       /\ Cardinality(heap.nfa[p].nodes_) = MaxNodes
       /\ heap.nfa[p].input_ # NULL
       /\ insert_node(heap, g, heap.nfa[p].input_).nfa[p].input_ = NULL
       /\ insert_node(heap, g, heap.nfa[p].input_).nfa[g].nodes_
             = {heap.nfa[p].input_}

\* C16: after any sequence of the public operations, a non-null input() is
\* a member of nodes() and a non-null output() is a member of nodes().
C16_InputOutputAreOwned ==
    \A g \in Graphs :
       /\ heap.nfa[g].input_ # NULL => heap.nfa[g].input_ \in heap.nfa[g].nodes_
       /\ heap.nfa[g].output_ # NULL =>
             heap.nfa[g].output_ \in heap.nfa[g].nodes_

\* C17: compile() is idempotent: called when an automaton is already cached
\* for the current pattern, it does not recompile and leaves the cached
\* automaton object as it is.
C17_CompileIsIdempotent ==
    [][(last'.op = "compile" /\ compiled_ # NULL) =>
          (compiled_' = compiled_ /\ heap' = heap)]_vars

\* Is the cached automaton one the parser compiles from pattern p?  It has
\* as many nodes and gives the same verdict on the current input string.
CacheIsOf(p) ==
    Only([c \in {RegEx_compiled(EmptyHeap, parser_, p)} |->
        /\ Cardinality(heap.nfa[compiled_].nodes_)
              = Cardinality(c.h.nfa[c.r].nodes_)
        /\ accepts(heap, compiled_, text) = accepts(c.h, c.r, text)])

\* What a call of set_expression or full_match may do to the cache and to
\* the expression text
CoherentCall ==
    /\ (last'.op = "set_expression") =>
          (compiled_' = NULL /\ expression_' = last'.arg)
    /\ (last'.op # "set_expression") => (expression_' = expression_)
    /\ (last'.op = "full_match") =>
          IF compiled_ # NULL
          THEN compiled_' = compiled_ /\ heap' = heap
          ELSE compiled_' # NULL

\* C18: cache coherence of RegEx: the cached automaton is absent or was
\* compiled from the current expression text; set_expression leaves the
\* cache absent; full_match compiles only when the cache is absent; and
\* expression() is the text most recently set.
C18_CacheCoherence ==
    /\ [](compiled_ # NULL => CacheIsOf(expression_))
    /\ [][CoherentCall]_vars

\* full_match has compiled the pattern a set_expression installed over a
\* non-empty input string
C18_Witness ==
    /\ last.op = "full_match"
    /\ returned.called
    /\ compiled_ # NULL
    /\ expression_ = <<"a", "|", "b">>
    /\ text = <<"b">>
    /\ accepts(heap, compiled_, text)

\* C19: the default parser is permissive: for every pattern text, malformed
\* ones included, Parser::compile terminates and returns an automaton with
\* a non-null input and a non-null output, and SimpleParser::error() is
\* false before and after.
C19_DefaultParserIsPermissive ==
    /\ ~SimpleParser_error
    /\ Only([c \in {Parser_compile(EmptyHeap, parser_, expression_)} |->
           /\ c.h.nfa[c.r].input_ # NULL
           /\ c.h.nfa[c.r].output_ # NULL])
    /\ compiled_ # NULL =>
          /\ heap.nfa[compiled_].input_ # NULL
          /\ heap.nfa[compiled_].output_ # NULL

\* an unterminated group holding an unterminated bracket that ends in a
\* dangling escape has been compiled
C19_Witness ==
    /\ last.op = "compile"
    /\ expression_ = <<"(", "[", "\\">>
    /\ compiled_ # NULL
    /\ heap.nfa[compiled_].input_ \in heap.nfa[compiled_].nodes_
    /\ heap.nfa[compiled_].output_ \in heap.nfa[compiled_].nodes_

\* state_ of a runner constructed on `nfa' and stepped alone over s
Alone(nfa, s) == run(heap, expand_empty(heap, {heap.nfa[nfa].input_}), s)

\* a call of a runner: construction, step or destruction
RunnerCall == nfa_' # nfa_ \/ state_' # state_ \/ text' # text \/ peer' # peer

\* C20: simulation never modifies the automaton: constructing and stepping
\* a runner leave nodes, edges, input and output as they are; for two runners
\* on one automaton whose step calls interleave in any order, the active set
\* of each after its k-th step is the set it reaches when run alone over the
\* same characters.
C20_RunnersShareReadOnly ==
    /\ [](nfa_ # NULL => state_ = Alone(nfa_, text))
    /\ [](peer.nfa_ # NULL => peer.state_ = Alone(peer.nfa_, peer.text))
    /\ [][RunnerCall => heap' = heap]_vars

\* two runners on one automaton have been stepped over different strings
\* and disagree on acceptance
C20_Witness ==
    /\ nfa_ # NULL
    /\ peer.nfa_ = nfa_
    /\ Len(text) = MaxLen
    /\ Len(peer.text) = MaxLen - 1
    /\ Head(peer.text) # Head(text)
    /\ acceptable(heap, nfa_, state_)
    /\ ~acceptable(heap, peer.nfa_, peer.state_)

-----------------------------------------------------------------------------
(***************************************************************************)
(* A program that assembles an automaton by hand through the public API   *)
(* and simulates it: NFA A; Node* n = new Node; A.insert_node(n); then     *)
(* add_transition calls between any two nodes, in any order, and an        *)
(* NfaRunner on A that is given states and characters.  Epsilon edges may  *)
(* form self-loops and cycles.                                             *)
(***************************************************************************)
\* epsilon edges a program adds at most
MaxEps == 3

\* conditioned transitions a program adds at most
MaxCond == 1

\* NFA A; Node* n = new Node; A.insert_node(n);
NetHeap ==
    Only([a \in {NFA_new(EmptyHeap)} |->
       Only([n \in {Node_new(a.h, NULL)} |-> insert_node(n.h, a.r, n.r)])])

\* the epsilon edges of the nodes S
RECURSIVE CountEps(_, _)
CountEps(h, S) ==
    IF S = {} THEN 0
    ELSE Only([n \in {CHOOSE n \in S : TRUE} |->
            Cardinality(h.node[n].empty_transitions_) + CountEps(h, S \ {n})])

\* the conditioned transitions of the nodes S
RECURSIVE CountCond(_, _)
CountCond(h, S) ==
    IF S = {} THEN 0
    ELSE Only([n \in {CHOOSE n \in S : TRUE} |->
            Len(h.node[n].transitions_) + CountCond(h, S \ {n})])

InitNet ==
    /\ expression_ = <<>>
    /\ parser_ = NULL
    /\ compiled_ = NULL
    /\ heap = NetHeap
    /\ nfa_ = NULL
    /\ state_ = {}
    /\ text = <<>>
    /\ returned = NotReturned
    /\ last = [op |-> "main"]
    /\ peer = NoRunner
    /\ NoContainer

\* n->add_transition(m);
AddEps(n, m) ==
    /\ nfa_ = NULL
    /\ m \notin heap.node[n].empty_transitions_
    /\ CountEps(heap, Nodes) < MaxEps
    /\ heap' = add_transition(heap, n, m)
    /\ UNCHANGED <<expression_, compiled_, parser_, nfa_, state_, text,
                   returned, last, peer>>
    /\ ContainersUnchanged

\* n->add_transition(m, [](char c) { return c == 'a'; });
AddCond(n, m) ==
    /\ nfa_ = NULL
    /\ CountCond(heap, Nodes) < MaxCond
    /\ heap' = add_transition_if(heap, n, m, FnEquals("a"))
    /\ UNCHANGED <<expression_, compiled_, parser_, nfa_, state_, text,
                   returned, last, peer>>
    /\ ContainersUnchanged

\* NfaRunner runner(g);
RunnerOn(g) ==
    /\ nfa_ = NULL
    /\ nfa_' = g
    /\ \E r \in {NfaRunner_new(heap, g)} :
          /\ heap' = r.h
          /\ state_' = r.state_
    /\ UNCHANGED <<expression_, compiled_, parser_, text, returned, last, peer>>
    /\ ContainersUnchanged

\* runner.set_state(S);
SetState(S) ==
    /\ nfa_ # NULL
    /\ \E r \in {NfaRunner_set_state(heap, S)} :
          /\ heap' = r.h
          /\ state_' = r.state_
    /\ UNCHANGED <<expression_, compiled_, parser_, nfa_, text, returned, last,
                   peer>>
    /\ ContainersUnchanged

\* runner.step(c); the program keeps no record of the characters
StepOn(c) ==
    /\ nfa_ # NULL
    /\ \E r \in {NfaRunner_step(heap, state_, c)} :
          /\ heap' = r.h
          /\ state_' = r.state_
    /\ UNCHANGED <<expression_, compiled_, parser_, nfa_, text, returned, last,
                   peer>>
    /\ ContainersUnchanged

NextNet ==
    \/ \E n, m \in Nodes : AddEps(n, m)
    \/ \E n, m \in Nodes : AddCond(n, m)
    \/ \E g \in Graphs : RunnerOn(g)
    \/ \E S \in SUBSET (Nodes \cup {NULL}) : SetState(S)
    \/ \E c \in {"a", "b"} : StepOn(c)
    \/ RunnerDelete

SpecNet == InitNet /\ [][NextNet]_vars

\* the nodes one epsilon edge away from T, and T
EpsStep(h, T) == T \cup UNION {h.node[n].empty_transitions_ : n \in T}

\* the least set that holds T and is closed under epsilon edges
RECURSIVE EpsReach(_, _)
EpsReach(h, T) == IF EpsStep(h, T) = T THEN T ELSE EpsReach(h, EpsStep(h, T))

\* S is closed under the epsilon edges
EpsClosed(h, S) == \A n \in S : h.node[n].empty_transitions_ \subseteq S

\* C26: the active set is always epsilon-closed: right after construction
\* it is the epsilon-closure of {automaton.input}, and after every set_state
\* and every step every epsilon edge from a member of state() leads to a
\* member of state().
C26_ActiveSetIsClosed ==
    /\ nfa_ # NULL => EpsClosed(heap, state_)
    /\ \A g \in Graphs :
          NfaRunner_new(heap, g).state_ = EpsReach(heap, {heap.nfa[g].input_})

\* a runner holds a set of two nodes that an epsilon edge made it hold
C26_Witness ==
    /\ nfa_ # NULL
    /\ Cardinality(state_) = 2
    /\ \E n, m \in state_ : n # m /\ m \in heap.node[n].empty_transitions_
    /\ state_ # EpsReach(heap, {heap.nfa[nfa_].input_})

\* the nodes m such that some n of S has a conditioned transition to m whose
\* predicate accepts c
MoveOn(h, S, c) ==
    {m \in DOMAIN h.node :
        \E n \in S : \E i \in DOMAIN h.node[n].transitions_ :
            /\ h.node[n].transitions_[i].target = m
            /\ Call(h.node[n].transitions_[i].condition, c)}

\* C27: step(c) replaces the active set S by the epsilon-closure of the
\* nodes that a conditioned transition accepting c leads to from a node of
\* S; nodes of S that are not reached again are not carried over, and
\* epsilon edges alone never consume c.
C27_StepIsMoveThenClosure ==
    nfa_ # NULL =>
        \A c \in {"a", "b"} :
            Only([next \in {NfaRunner_step(heap, state_, c).state_} |->
                /\ next = EpsReach(heap, MoveOn(heap, state_, c))
                /\ (MoveOn(heap, state_, c) = {} => next = {})])

\* the active set has an epsilon edge and a transition on 'a'; a step over
\* 'a' drops a node of the set and reaches a node through an epsilon edge
\* behind the transition, and a step over 'b' leaves the empty set
C27_Witness ==
    /\ nfa_ # NULL
    /\ \E n \in state_ : heap.node[n].empty_transitions_ # {}
    /\ state_ \ NfaRunner_step(heap, state_, "a").state_ # {}
    /\ NfaRunner_step(heap, state_, "a").state_ \ MoveOn(heap, state_, "a") # {}
    /\ NfaRunner_step(heap, state_, "b").state_ = {}

\* C28: the epsilon closure is idempotent and extensive: for every node set
\* S, expand_empty(expand_empty(S)) = expand_empty(S), and expand_empty(S)
\* holds every non-null member of S and exactly the nodes that epsilon edges
\* alone reach from S.
C28_ClosureIsIdempotentExtensive ==
    \A S \in SUBSET (Nodes \cup {NULL}) :
        Only([E \in {expand_empty(heap, S)} |->
            /\ expand_empty(heap, E) = E
            /\ S \ {NULL} \subseteq E
            /\ E = EpsReach(heap, S \ {NULL})])

\* the automaton has a two-node epsilon cycle with a third node behind it,
\* and the runner was given one node of the cycle and the null pointer
C28_Witness ==
    /\ nfa_ # NULL
    /\ \E n, m, k \in Nodes :
          /\ n # m /\ k \notin {n, m}
          /\ m \in heap.node[n].empty_transitions_
          /\ n \in heap.node[m].empty_transitions_
          /\ k \in heap.node[m].empty_transitions_
          /\ state_ = expand_empty(heap, {n, NULL})
          /\ state_ = {n, m, k}

-----------------------------------------------------------------------------
(***************************************************************************)
(* The worklist loop of NfaRunner::expand_empty, one iteration at a time.  *)
(* While set_state runs, `last' holds the locals of expand_empty: source,  *)
(* output, and the nodes in the order output.insert was called on them.    *)
(* source is an unordered_set: *source.begin() is any of its elements.     *)
(***************************************************************************)
InLoop == last.op = "expand_empty"

\* runner.set_state(S) enters expand_empty(S)
ExpandEmptyCall(S) ==
    /\ nfa_ # NULL
    /\ ~InLoop
    /\ last' = [op |-> "expand_empty", source |-> S, output |-> {},
                inserted |-> <<>>]
    /\ UNCHANGED <<expression_, compiled_, parser_, heap, nfa_, state_, text,
                   returned, peer>>
    /\ ContainersUnchanged

\* an iteration that pushes every epsilon target that is not in source
ExpandEmptyIter_revisiting ==
    /\ InLoop
    /\ last.source # {}
    /\ \E current_node \in last.source :
          last' = IF current_node = NULL
                  THEN [last EXCEPT !.source = @ \ {current_node}]
                  ELSE [last EXCEPT
                          !.source = (@ \ {current_node})
                              \cup heap.node[current_node].empty_transitions_,
                          !.output = @ \cup {current_node},
                          !.inserted = Append(@, current_node)]
    /\ UNCHANGED <<expression_, compiled_, parser_, heap, nfa_, state_, text,
                   returned, peer>>
    /\ ContainersUnchanged

\* one iteration of the while loop
ExpandEmptyIter ==
    /\ InLoop
    /\ last.source # {}
    /\ \E current_node \in last.source :
          last' = IF current_node = NULL
                  THEN [last EXCEPT !.source = @ \ {current_node}]
                  ELSE [last EXCEPT
                          !.source = (@ \ {current_node})
                              \cup {adjacent \in
                                      heap.node[current_node].empty_transitions_ :
                                        /\ adjacent \notin last.source \ {current_node}
                                        /\ adjacent \notin
                                             last.output \cup {current_node}},
                          !.output = @ \cup {current_node},
                          !.inserted = Append(@, current_node)]
    /\ UNCHANGED <<expression_, compiled_, parser_, heap, nfa_, state_, text,
                   returned, peer>>
    /\ ContainersUnchanged

\* the loop is left and set_state assigns state_
ExpandEmptyReturn ==
    /\ InLoop
    /\ last.source = {}
    /\ state_' = last.output
    /\ last' = OtherCall
    /\ UNCHANGED <<expression_, compiled_, parser_, heap, nfa_, text, returned,
                   peer>>
    /\ ContainersUnchanged

NextLoop ==
    \/ \E n, m \in Nodes : AddEps(n, m)
    \/ \E g \in Graphs : RunnerOn(g)
    \/ ~InLoop /\ RunnerDelete
    \/ \E S \in SUBSET (Nodes \cup {NULL}) : ExpandEmptyCall(S)
    \/ ExpandEmptyIter
    \/ ExpandEmptyReturn

\* a loop that has been entered runs on: every iteration and the return are
\* steps of one thread
SpecLoop ==
    /\ InitNet
    /\ [][NextLoop]_vars
    /\ WF_vars(ExpandEmptyIter)
    /\ WF_vars(ExpandEmptyReturn)

\* C29: the worklist loop of expand_empty terminates for every finite
\* automaton and every seed set, epsilon cycles and self-loops included,
\* and each node is added to the result at most once.
C29_ClosureLoopTerminates ==
    /\ [](InLoop => \A i, j \in DOMAIN last.inserted :
                        last.inserted[i] = last.inserted[j] => i = j)
    /\ (InLoop ~> ~InLoop)

\* the loop has gone round an epsilon cycle with a self-loop on it and has
\* nothing left to do
C29_Witness ==
    /\ InLoop
    /\ last.source = {}
    /\ Len(last.inserted) = 3
    /\ \E n, m \in Nodes :
          /\ n # m
          /\ m \in heap.node[n].empty_transitions_
          /\ n \in heap.node[m].empty_transitions_
          /\ m \in heap.node[m].empty_transitions_

-----------------------------------------------------------------------------
\* C30: when A.merge(B) succeeds, A's former output node is the surviving
\* fused state: its conditioned transitions are its former ones followed by
\* those of B.input, its epsilon targets are the union of both, B.input is
\* discarded, every other node keeps its transitions, and A's node set is
\* A's former nodes plus B's former nodes minus B.input.
C30_MergeFusesOutputWithInput ==
    \A a, b \in Graphs :
        Only([m \in {NFA_merge(heap, a, b)} |->
            (~m.fault /\ m.r) =>
                \A o \in {heap.nfa[a].output_}, i \in {heap.nfa[b].input_} :
                    /\ o \in DOMAIN m.h.node
                    /\ i \notin DOMAIN m.h.node
                    /\ m.h.node[o].transitions_ =
                          heap.node[o].transitions_ \o heap.node[i].transitions_
                    /\ m.h.node[o].empty_transitions_ =
                          heap.node[o].empty_transitions_
                              \cup heap.node[i].empty_transitions_
                    /\ \A n \in DOMAIN heap.node \ {o, i} :
                          /\ n \in DOMAIN m.h.node
                          /\ m.h.node[n].transitions_ = heap.node[n].transitions_
                          /\ m.h.node[n].empty_transitions_ =
                                heap.node[n].empty_transitions_
                    /\ m.h.nfa[a].nodes_ =
                          (heap.nfa[a].nodes_ \cup heap.nfa[b].nodes_) \ {i}])

-----------------------------------------------------------------------------
(***************************************************************************)
(* HashTable<int,int>.  The table is its bucket_list, a sequence of        *)
(* buckets, each the sequence of the items of a std::list from front to    *)
(* back, and its size_.  std::hash<int> is the identity.  An iterator is   *)
(* its bucket_index (from 0, -1 past the end) and the position of its list *)
(* iterator in the bucket (from 1).                                        *)
(***************************************************************************)
\* the largest constructor argument
MaxBuckets == 2

\* keys are 0..MaxKey
MaxKey == 2

\* items a program stores at most
MaxItems == 3

Keys == 0..MaxKey

Values == {0, 1}

\* a program that constructs no automaton and no RegEx
InitNoEngine ==
    /\ expression_ = <<>>
    /\ parser_ = NULL
    /\ compiled_ = NULL
    /\ heap = EmptyHeap
    /\ nfa_ = NULL
    /\ state_ = {}
    /\ text = <<>>
    /\ returned = NotReturned
    /\ last = [op |-> "main"]
    /\ peer = NoRunner

\* a call on a container touches no automaton and no RegEx
EngineUnchanged ==
    UNCHANGED <<expression_, compiled_, parser_, heap, nfa_, state_, text,
                returned, last, peer>>

\* HashTable::HashTable(int buckets)
HashTable(buckets) ==
    [bucket_list |-> [i \in 1..(IF buckets > 1 THEN buckets ELSE 1) |-> <<>>],
     size_ |-> 0]

\* HashTable::KeyToBucket, as an index of bucket_list from 1
KeyToBucket(t, key) == (key % Len(t.bucket_list)) + 1

\* HashTable::find_key: the position of the first item with the key, or the
\* position past the last item
find_key(bucket, key) ==
    IF \E p \in DOMAIN bucket : bucket[p].first = key
    THEN CHOOSE p \in DOMAIN bucket :
            /\ bucket[p].first = key
            /\ \A q \in 1..(p - 1) : bucket[q].first # key
    ELSE Len(bucket) + 1

\* std::list::erase at position p
ListErase(bucket, p) ==
    [q \in 1..(Len(bucket) - 1) |-> IF q < p THEN bucket[q] ELSE bucket[q + 1]]

\* HashTable::insert
HashTable_insert(t, key, value) ==
    [t EXCEPT !.bucket_list[KeyToBucket(t, key)] =
                  <<[first |-> key, second |-> value]>> \o @,
              !.size_ = @ + 1]

\* HashTable::insert_or_assign; `*iter = value' gives the item the value
HashTable_insert_or_assign(t, key, value) ==
    Only([hash \in {KeyToBucket(t, key)} |->
       Only([iter \in {find_key(t.bucket_list[hash], key)} |->
          IF iter # Len(t.bucket_list[hash]) + 1
          THEN [t EXCEPT !.bucket_list[hash][iter].second = value]
          ELSE HashTable_insert(t, key, value)])])

\* HashTable::operator[]
HashTable_index(t, key) ==
    IF find_key(t.bucket_list[KeyToBucket(t, key)], key)
          = Len(t.bucket_list[KeyToBucket(t, key)]) + 1
    THEN HashTable_insert(t, key, 0)
    ELSE t

\* HashTable::erase(const Key&)
HashTable_erase(t, key) ==
    Only([hash \in {KeyToBucket(t, key)} |->
       Only([iter \in {find_key(t.bucket_list[hash], key)} |->
          IF iter = Len(t.bucket_list[hash]) + 1
          THEN t
          ELSE [t EXCEPT !.bucket_list[hash] = ListErase(@, iter),
                         !.size_ = @ - 1]])])

\* HashTable::end
HashTable_end == [bucket_index |-> -1, iterator |-> 0]

\* HashTable::erase(iterator): size_ is decremented when the list iterator
\* returned by the bucket's erase is not the end of the bucket
HashTable_erase_at(t, it) ==
    IF it = HashTable_end
    THEN t
    ELSE [t EXCEPT !.bucket_list[it.bucket_index + 1] = ListErase(@, it.iterator),
                   !.size_ = IF it.iterator
                                   # Len(t.bucket_list[it.bucket_index + 1])
                                THEN @ - 1 ELSE @]

\* the iterators of t that can be dereferenced, and end()
Iterators(t) ==
    {HashTable_end}
      \cup {it \in [bucket_index : 0..(Len(t.bucket_list) - 1),
                    iterator : 1..MaxItems] :
               it.iterator <= Len(t.bucket_list[it.bucket_index + 1])}

\* the items stored in the buckets from index b on
RECURSIVE Stored(_, _)
Stored(t, b) ==
    IF b > Len(t.bucket_list) THEN 0
    ELSE Len(t.bucket_list[b]) + Stored(t, b + 1)

InitTable ==
    /\ InitNoEngine
    /\ table \in {HashTable(buckets) : buckets \in 0..MaxBuckets}
    /\ trie = NULL
    /\ rbtree = NULL

\* a call that leaves the table t; the program stops storing at MaxItems
TableCall(t) ==
    /\ t.size_ <= MaxItems
    /\ table' = t
    /\ EngineUnchanged
    /\ UNCHANGED <<trie, rbtree>>

\* table.insert(key, value);
TableInsert(key, value) ==
    /\ Stored(table, 1) < MaxItems
    /\ TableCall(HashTable_insert(table, key, value))

\* table.insert_or_assign(key, value);
TableInsertOrAssign(key, value) ==
    /\ Stored(table, 1) < MaxItems
    /\ TableCall(HashTable_insert_or_assign(table, key, value))

\* table[key];
TableIndex(key) ==
    /\ Stored(table, 1) < MaxItems
    /\ TableCall(HashTable_index(table, key))

\* table.erase(key);
TableErase(key) == TableCall(HashTable_erase(table, key))

\* table.erase(it);
TableEraseAt(it) == TableCall(HashTable_erase_at(table, it))

NextTable ==
    \/ \E key \in Keys, value \in Values : TableInsert(key, value)
    \/ \E key \in Keys, value \in Values : TableInsertOrAssign(key, value)
    \/ \E key \in Keys : TableIndex(key)
    \/ \E key \in Keys : TableErase(key)
    \/ \E it \in Iterators(table) : TableEraseAt(it)

SpecTable == InitTable /\ [][NextTable]_vars

\* C21: after any sequence of insert, insert_or_assign, operator[],
\* erase(key) and erase(iterator), size() is the number of items stored in
\* all buckets and empty() is true exactly when no item is stored.
C21_SizeCountsStoredItems ==
    /\ table.size_ = Stored(table, 1)
    /\ (table.size_ = 0) <=> (Stored(table, 1) = 0)

-----------------------------------------------------------------------------
(***************************************************************************)
(* Trie.  The trie is its root pointer and the TrieNode objects alive: the *)
(* parent, marks_end and children of each; children maps a character to    *)
(* a node or, for no entry, to NULL.  `allocated' counts the nodes ever    *)
(* made: a freed address is not handed out again, so that a pointer to a   *)
(* freed node is told from a pointer to a live one.  A call that reads or  *)
(* writes a freed node has undefined behaviour: `undefined' is set and     *)
(* nothing is stated about the program from then on.                       *)
(***************************************************************************)
\* characters of a word at most
MaxWord == 2

\* TrieNode objects a program makes at most
MaxTrieNodes == 6

TrieChars == {"a", "b"}

RECURSIVE WordsOfLength(_)
WordsOfLength(n) ==
    IF n = 0 THEN {<<>>}
    ELSE {Append(w, c) : w \in WordsOfLength(n - 1), c \in TrieChars}

Words == UNION {WordsOfLength(n) : n \in 0..MaxWord}

\* the result of following a pointer to a freed node
Freed == -1

\* TrieNode::TrieNode(parent)
TrieNode(parent) ==
    [parent |-> parent, marks_end |-> FALSE, children |-> [c \in TrieChars |-> NULL]]

\* Trie::Trie
Trie ==
    [root |-> 1, node |-> [n \in {1} |-> TrieNode(NULL)], allocated |-> 1,
     undefined |-> FALSE]

TrieLive(t, n) == n \in DOMAIN t.node

\* the loop of contains, erase and contains_prefix: the node the word leads
\* to from `node', NULL when get returns nullptr, Freed when the walk calls
\* get on a freed node
RECURSIVE Trie_walk(_, _, _)
Trie_walk(t, node, word) ==
    IF ~TrieLive(t, node) THEN Freed
    ELSE IF word = <<>> THEN node
    ELSE IF t.node[node].children[Head(word)] = NULL THEN NULL
    ELSE Trie_walk(t, t.node[node].children[Head(word)], Tail(word))

\* Trie::contains: the values the call can return
Trie_contains(t, word) ==
    Only([node \in {Trie_walk(t, t.root, word)} |->
        IF node = NULL THEN {FALSE}
        ELSE IF node = Freed THEN BOOLEAN
        ELSE {t.node[node].marks_end}])

\* TrieNode::get_or_create on a live node: the trie and the child
get_or_create(t, this, c) ==
    IF t.node[this].children[c] # NULL
    THEN [t |-> t, r |-> t.node[this].children[c]]
    ELSE Only([new \in {t.allocated + 1} |->
            [t |-> [t EXCEPT !.allocated = new,
                             !.node = Map([n \in DOMAIN @ \cup {new} |->
                                 IF n = new THEN TrieNode(this)
                                 ELSE IF n = this
                                 THEN [@[n] EXCEPT !.children[c] = new]
                                 ELSE @[n]])],
             r |-> new]])

\* Trie::insert from `node' on
RECURSIVE Trie_insert_loop(_, _, _)
Trie_insert_loop(t, node, word) ==
    IF ~TrieLive(t, node) THEN [t EXCEPT !.undefined = TRUE]
    ELSE IF word = <<>> THEN [t EXCEPT !.node[node].marks_end = TRUE]
    ELSE Only([g \in {get_or_create(t, node, Head(word))} |->
            Trie_insert_loop(g.t, g.r, Tail(word))])

\* Trie::insert
Trie_insert(t, word) == Trie_insert_loop(t, t.root, word)

\* the nodes of the sub-tree of a live node, freed ones included
RECURSIVE SubTree(_, _)
SubTree(t, node) ==
    IF ~TrieLive(t, node) THEN {node}
    ELSE {node} \cup UNION {SubTree(t, t.node[node].children[c]) :
                               c \in {d \in TrieChars :
                                        t.node[node].children[d] # NULL}}

\* Trie::recursive_delete: every node of the sub-tree is deleted; deleting a
\* freed node again is undefined
recursive_delete(t, node) ==
    IF node = NULL THEN t
    ELSE IF \E n \in SubTree(t, node) : ~TrieLive(t, n)
    THEN [t EXCEPT !.undefined = TRUE]
    ELSE [t EXCEPT !.node = Map([n \in DOMAIN @ \ SubTree(t, node) |-> @[n]])]

\* the entries of children
ChildrenSize(t, node) ==
    Cardinality({c \in TrieChars : t.node[node].children[c] # NULL})

\* the while loop of Trie::remove_dangling
RECURSIVE remove_dangling_loop(_, _)
remove_dangling_loop(t, node) ==
    IF /\ node # NULL
       /\ t.node[node].parent # t.root
       /\ ~t.node[node].marks_end
       /\ ChildrenSize(t, node) <= 1
    THEN remove_dangling_loop(t, t.node[node].parent)
    ELSE node

\* Trie::remove_dangling
remove_dangling(t, node) ==
    IF remove_dangling_loop(t, node) # t.root
    THEN recursive_delete(t, remove_dangling_loop(t, node))
    ELSE t

\* Trie::erase
Trie_erase(t, word) ==
    Only([node \in {Trie_walk(t, t.root, word)} |->
        IF node = NULL THEN t
        ELSE IF node = Freed THEN [t EXCEPT !.undefined = TRUE]
        ELSE remove_dangling([t EXCEPT !.node[node].marks_end = FALSE], node)])

InitTrie ==
    /\ InitNoEngine
    /\ table = NULL
    /\ trie = Trie
    /\ rbtree = NULL

\* trie.insert(word);
TrieInsert(word) ==
    /\ ~trie.undefined
    /\ trie.allocated + Len(word) <= MaxTrieNodes
    /\ trie' = Trie_insert(trie, word)
    /\ last' = OtherCall
    /\ UNCHANGED <<expression_, compiled_, parser_, heap, nfa_, state_, text,
                   returned, peer, table, rbtree>>

\* trie.erase(word); `last' keeps the word and the trie before the call
TrieErase(word) ==
    /\ ~trie.undefined
    /\ trie' = Trie_erase(trie, word)
    /\ last' = [op |-> "erase", word |-> word, before |-> trie]
    /\ UNCHANGED <<expression_, compiled_, parser_, heap, nfa_, state_, text,
                   returned, peer, table, rbtree>>

NextTrie ==
    \/ \E word \in Words : TrieInsert(word)
    \/ \E word \in Words : TrieErase(word)

SpecTrie == InitTrie /\ [][NextTrie]_vars

\* C22: erase(w) removes only the word w: after any sequence of insert
\* calls followed by erase(w), contains(w) is false and contains(v) is what
\* it was for every other word v, words that have w as a proper prefix and
\* words that share a prefix with w included.
C22_EraseRemovesOnlyTheWord ==
    (last.op = "erase" /\ ~trie.undefined) =>
        /\ Trie_contains(trie, last.word) = {FALSE}
        /\ \A v \in Words \ {last.word} :
              Trie_contains(trie, v) = Trie_contains(last.before, v)

-----------------------------------------------------------------------------
(***************************************************************************)
(* RedBlackTree<int,int>.  The tree is root_, size_ and the RedBlackNode   *)
(* objects alive: key, value, parent, left, right and color of each.  The  *)
(* address of a new node is chosen by its key; the code compares addresses *)
(* for equality only.  A call that dereferences a null node pointer has    *)
(* undefined behaviour: `fault' is set and the program is not followed     *)
(* further.                                                                *)
(***************************************************************************)
\* keys of the tree are 0..MaxTreeKey
MaxTreeKey == 5

TreeKeys == 0..MaxTreeKey

\* RedBlackTree::RedBlackTree
RedBlackTree == [root_ |-> NULL, size_ |-> 0, node |-> <<>>, fault |-> FALSE]

\* the call dereferences a null pointer
Fault(t) == [t EXCEPT !.fault = TRUE]

SetLeft(t, n, v) == [t EXCEPT !.node[n].left = v]
SetRight(t, n, v) == [t EXCEPT !.node[n].right = v]
SetParent(t, n, v) == [t EXCEPT !.node[n].parent = v]
SetColor(t, n, v) == [t EXCEPT !.node[n].color = v]
SetRoot(t, v) == [t EXCEPT !.root_ = v]
ParentOf(t, n) == t.node[n].parent

\* new RedBlackNode(key, value, color): the tree with the node, at `new'
RedBlackNode(t, new, key, value, color) ==
    [t EXCEPT !.node = Map([n \in DOMAIN @ \cup {new} |->
                  IF n = new
                  THEN [key |-> key, value |-> value, parent |-> NULL,
                        left |-> NULL, right |-> NULL, color |-> color]
                  ELSE @[n]])]

\* the address operator new returns for a node of the key
NewAddress(t, key) ==
    IF key + 1 \notin DOMAIN t.node THEN key + 1
    ELSE CHOOSE a \in (MaxTreeKey + 2)..(2 * MaxTreeKey + 3) :
            /\ a \notin DOMAIN t.node
            /\ \A b \in (MaxTreeKey + 2)..(a - 1) : b \in DOMAIN t.node

\* RedBlackNode::recursive_find
RECURSIVE recursive_find(_, _, _, _)
recursive_find(t, this, search, get_parent) ==
    IF search < t.node[this].key
    THEN IF t.node[this].left # NULL
         THEN recursive_find(t, t.node[this].left, search, get_parent)
         ELSE IF get_parent THEN this ELSE NULL
    ELSE IF t.node[this].key < search
    THEN IF t.node[this].right # NULL
         THEN recursive_find(t, t.node[this].right, search, get_parent)
         ELSE IF get_parent THEN this ELSE NULL
    ELSE this

\* RedBlackNode::is_left_child
is_left_child(t, this) ==
    ParentOf(t, this) # NULL /\ t.node[ParentOf(t, this)].left = this

\* RedBlackNode::is_right_child
is_right_child(t, this) ==
    ParentOf(t, this) # NULL /\ t.node[ParentOf(t, this)].right = this

\* RedBlackNode::sibling
sibling(t, this) ==
    IF ParentOf(t, this) = NULL THEN NULL
    ELSE IF t.node[ParentOf(t, this)].left = this
    THEN t.node[ParentOf(t, this)].right
    ELSE t.node[ParentOf(t, this)].left

\* RedBlackNode::minimum
RECURSIVE minimum(_, _)
minimum(t, this) ==
    IF t.node[this].left # NULL THEN minimum(t, t.node[this].left) ELSE this

\* RedBlackTree::find: the node, NULL for end()
RedBlackTree_find(t, search) ==
    IF t.root_ = NULL THEN NULL ELSE recursive_find(t, t.root_, search, FALSE)

\* rotate_left and rotate_right, "fix parent": next_subroot takes the
\* place of node under node's parent
rotate_fix_parent(t, node, next_subroot) ==
    IF ParentOf(t, node) = NULL
    THEN SetRoot(SetParent(t, next_subroot, NULL), next_subroot)
    ELSE IF is_left_child(t, node)
    THEN SetLeft(SetParent(t, next_subroot, ParentOf(t, node)),
                 ParentOf(t, node), next_subroot)
    ELSE SetRight(SetParent(t, next_subroot, ParentOf(t, node)),
                  ParentOf(t, node), next_subroot)

\* rotate_left, "change the middle subtree"
rotate_left_middle(t, node, next_subroot) ==
    IF t.node[next_subroot].left # NULL
    THEN SetParent(SetRight(t, node, t.node[next_subroot].left),
                   t.node[next_subroot].left, node)
    ELSE SetRight(t, node, NULL)

\* RedBlackTree::rotate_left
rotate_left(t, node) ==
    IF t.fault THEN t
    ELSE IF node = NULL THEN Fault(t)
    ELSE IF t.node[node].right = NULL THEN Fault(t)
    ELSE SetParent(
            SetLeft(rotate_fix_parent(
                        rotate_left_middle(t, node, t.node[node].right),
                        node, t.node[node].right),
                    t.node[node].right, node),
            node, t.node[node].right)

\* rotate_right, "change the middle subtree"
rotate_right_middle(t, node, next_subroot) ==
    IF t.node[next_subroot].right # NULL
    THEN SetParent(SetLeft(t, node, t.node[next_subroot].right),
                   t.node[next_subroot].right, node)
    ELSE SetLeft(t, node, NULL)

\* RedBlackTree::rotate_right
rotate_right(t, node) ==
    IF t.fault THEN t
    ELSE IF node = NULL THEN Fault(t)
    ELSE IF t.node[node].left = NULL THEN Fault(t)
    ELSE SetParent(
            SetRight(rotate_fix_parent(
                         rotate_right_middle(t, node, t.node[node].left),
                         node, t.node[node].left),
                     t.node[node].left, node),
            node, t.node[node].left)

\* insert_fixup: parent and uncle y become black, the grandparent red
insert_recolor(t, node, y) ==
    SetColor(SetColor(SetColor(t, ParentOf(t, node), "BLACK"), y, "BLACK"),
             ParentOf(t, ParentOf(t, node)), "RED")

\* insert_fixup: node->parent->color = BLACK; node->parent->parent->color =
\* RED; rotate_right(node->parent->parent);
insert_rotate_right(t, node) ==
    IF t.fault THEN t
    ELSE rotate_right(
            SetColor(SetColor(t, ParentOf(t, node), "BLACK"),
                     ParentOf(t, ParentOf(t, node)), "RED"),
            ParentOf(t, ParentOf(t, node)))

\* insert_fixup: the same with rotate_left
insert_rotate_left(t, node) ==
    IF t.fault THEN t
    ELSE rotate_left(
            SetColor(SetColor(t, ParentOf(t, node), "BLACK"),
                     ParentOf(t, ParentOf(t, node)), "RED"),
            ParentOf(t, ParentOf(t, node)))

\* an insert_fixup that only blackens the root
insert_fixup_root_only(t, node) == SetColor(t, t.root_, "BLACK")

\* RedBlackTree::insert_fixup
RECURSIVE insert_fixup(_, _)
insert_fixup(t, node) ==
    IF t.fault THEN t
    ELSE IF ~(/\ node # NULL
              /\ ParentOf(t, node) # NULL
              /\ t.node[ParentOf(t, node)].color = "RED")
    THEN SetColor(t, t.root_, "BLACK")
    ELSE IF ParentOf(t, ParentOf(t, node)) = NULL THEN Fault(t)
    ELSE IF is_left_child(t, ParentOf(t, node))
    THEN Only([y \in {t.node[ParentOf(t, ParentOf(t, node))].right} |->
            IF y # NULL /\ t.node[y].color = "RED"
            THEN insert_fixup(insert_recolor(t, node, y),
                              ParentOf(t, ParentOf(t, node)))
            ELSE IF is_right_child(t, node)
            THEN insert_fixup(
                    insert_rotate_right(rotate_left(t, ParentOf(t, node)),
                                        ParentOf(t, node)),
                    ParentOf(t, node))
            ELSE insert_fixup(insert_rotate_right(t, node), node)])
    ELSE Only([y \in {t.node[ParentOf(t, ParentOf(t, node))].left} |->
            IF y # NULL /\ t.node[y].color = "RED"
            THEN insert_fixup(insert_recolor(t, node, y),
                              ParentOf(t, ParentOf(t, node)))
            ELSE IF is_left_child(t, node)
            THEN insert_fixup(
                    insert_rotate_left(rotate_right(t, ParentOf(t, node)),
                                       ParentOf(t, node)),
                    ParentOf(t, node))
            ELSE insert_fixup(insert_rotate_left(t, node), node)])

\* insert_node: the new red node is hung under location and fixed up
insert_under(t, location, new, key, value, left) ==
    Only([t1 \in {SetParent(RedBlackNode(t, new, key, value, "RED"),
                            new, location)} |->
       Only([t2 \in {insert_fixup(IF left THEN SetLeft(t1, location, new)
                                          ELSE SetRight(t1, location, new),
                                  new)} |->
          IF t2.fault THEN t2 ELSE [t2 EXCEPT !.size_ = @ + 1]])])

\* RedBlackTree::insert_node
insert_node_key(t, key, value, assign) ==
    IF t.root_ = NULL
    THEN SetRoot(RedBlackNode(t, NewAddress(t, key), key, value, "BLACK"),
                 NewAddress(t, key))
    ELSE Only([location \in {recursive_find(t, t.root_, key, TRUE)} |->
            IF key < t.node[location].key
            THEN insert_under(t, location, NewAddress(t, key), key, value, TRUE)
            ELSE IF t.node[location].key < key
            THEN insert_under(t, location, NewAddress(t, key), key, value, FALSE)
            ELSE IF assign
            THEN [t EXCEPT !.node[location].value = value]
            ELSE t])

\* RedBlackTree::insert
RedBlackTree_insert(t, key, value) == insert_node_key(t, key, value, TRUE)

\* RedBlackTree::operator[]
RedBlackTree_index(t, key) == insert_node_key(t, key, 0, FALSE)

\* erase_node: x takes the place of y under y's parent
erase_splice(t, y, x) ==
    Only([t1 \in {IF x # NULL THEN SetParent(t, x, ParentOf(t, y)) ELSE t} |->
        IF ParentOf(t1, y) = NULL THEN SetRoot(t1, x)
        ELSE IF is_left_child(t1, y) THEN SetLeft(t1, ParentOf(t1, y), x)
        ELSE SetRight(t1, ParentOf(t1, y), x)])

\* erase_node, "should remove y, replace node instead": y under node's parent
erase_replace_parent(t, node, y) ==
    Only([t1 \in {SetParent(t, y, ParentOf(t, node))} |->
        IF ParentOf(t1, y) # NULL
        THEN IF is_left_child(t1, node)
             THEN SetLeft(t1, ParentOf(t1, y), y)
             ELSE SetRight(t1, ParentOf(t1, y), y)
        ELSE SetRoot(t1, y)])

\* erase_node: y takes the left child of node
erase_replace_left(t, node, y) ==
    IF t.node[node].left # NULL
    THEN SetParent(SetLeft(t, y, t.node[node].left), t.node[node].left, y)
    ELSE SetLeft(t, y, NULL)

\* erase_node: y takes the right child of node
erase_replace_right(t, node, y) ==
    IF t.node[node].right # NULL
    THEN SetParent(SetRight(t, y, t.node[node].right), t.node[node].right, y)
    ELSE SetRight(t, y, NULL)

RECURSIVE erase_fixup(_, _)

\* erase_fixup, node a left child, from `sib->color = node->parent->color' on
erase_fixup_left_end(t, node, sib) ==
    IF t.fault THEN t
    ELSE IF sib = NULL THEN Fault(t)
    ELSE IF t.node[sib].right = NULL THEN Fault(t)
    ELSE Only([t1 \in {rotate_left(
                          SetColor(
                             SetColor(
                                SetColor(t, sib, t.node[ParentOf(t, node)].color),
                                ParentOf(t, node), "RED"),
                             t.node[sib].right, "BLACK"),
                          ParentOf(t, node))} |->
            erase_fixup(t1, t1.root_)])

\* erase_fixup, node a right child, from `sib->color = node->parent->color' on
erase_fixup_right_end(t, node, sib) ==
    IF t.fault THEN t
    ELSE IF sib = NULL THEN Fault(t)
    ELSE IF t.node[sib].left = NULL THEN Fault(t)
    ELSE Only([t1 \in {rotate_right(
                          SetColor(
                             SetColor(
                                SetColor(t, sib, t.node[ParentOf(t, node)].color),
                                ParentOf(t, node), "RED"),
                             t.node[sib].left, "BLACK"),
                          ParentOf(t, node))} |->
            erase_fixup(t1, t1.root_)])

\* erase_fixup from `if (sib->left->color == BLACK && ...' on
erase_fixup_cases(t, node, sib) ==
    IF t.fault THEN t
    ELSE IF sib = NULL THEN Fault(t)
    ELSE IF t.node[sib].left = NULL THEN Fault(t)
    ELSE IF t.node[t.node[sib].left].color = "BLACK" /\ t.node[sib].right = NULL
    THEN Fault(t)
    ELSE IF /\ t.node[t.node[sib].left].color = "BLACK"
            /\ t.node[t.node[sib].right].color = "BLACK"
    THEN erase_fixup(SetColor(t, sib, "RED"), ParentOf(t, node))
    ELSE IF is_left_child(t, node)
    THEN IF t.node[sib].right = NULL THEN Fault(t)
         ELSE IF t.node[t.node[sib].right].color = "BLACK"
         THEN Only([t1 \in {rotate_right(
                               SetColor(SetColor(t, t.node[sib].left, "BLACK"),
                                        sib, "RED"),
                               sib)} |->
                 IF t1.fault THEN t1
                 ELSE erase_fixup_left_end(t1, node, sibling(t1, node))])
         ELSE erase_fixup_left_end(t, node, sib)
    ELSE IF t.node[t.node[sib].left].color = "BLACK"
         THEN IF t.node[sib].right = NULL THEN Fault(t)
              ELSE Only([t1 \in {rotate_left(
                                    SetColor(SetColor(t, t.node[sib].right, "BLACK"),
                                             sib, "RED"),
                                    sib)} |->
                      IF t1.fault THEN t1
                      ELSE erase_fixup_right_end(t1, node, sibling(t1, node))])
         ELSE erase_fixup_right_end(t, node, sib)

\* erase_fixup: one turn of the while loop, from `sib = node->sibling()'
erase_fixup_body(t, node, sib) ==
    IF sib # NULL /\ t.node[sib].color = "RED"
    THEN Only([t1 \in {IF is_left_child(t, node)
                       THEN rotate_left(
                               SetColor(SetColor(t, sib, "BLACK"),
                                        ParentOf(t, node), "RED"),
                               ParentOf(t, node))
                       ELSE rotate_right(
                               SetColor(SetColor(t, sib, "BLACK"),
                                        ParentOf(t, node), "RED"),
                               ParentOf(t, node))} |->
            IF t1.fault THEN t1
            ELSE erase_fixup_cases(t1, node, sibling(t1, node))])
    ELSE erase_fixup_cases(t, node, sib)

\* RedBlackTree::erase_fixup
erase_fixup(t, node) ==
    IF t.fault THEN t
    ELSE IF node = NULL THEN Fault(t)
    ELSE IF node # t.root_ /\ t.node[node].color = "BLACK"
    THEN erase_fixup_body(t, node, sibling(t, node))
    ELSE SetColor(t, node, "BLACK")

\* erase_node from `if (y != node)' on, y and x chosen
erase_node_with(t, node, y, x) ==
    Only([t1 \in {IF y # node
                  THEN erase_replace_right(
                          erase_replace_left(
                             erase_replace_parent(erase_splice(t, y, x), node, y),
                             node, y),
                          node, y)
                  ELSE erase_splice(t, y, x)} |->
       Only([t2 \in {IF t1.node[y].color = "BLACK"
                     THEN erase_fixup(t1, x) ELSE t1} |->
          IF t2.fault THEN t2 ELSE [t2 EXCEPT !.size_ = @ - 1]])])

\* the node erase_node removes from the structure: node, or its successor
\* when node has two children
erase_node_y(t, node) ==
    IF t.node[node].left = NULL \/ t.node[node].right = NULL
    THEN node
    ELSE minimum(t, t.node[node].right)

\* RedBlackTree::erase_node
erase_node(t, node) ==
    Only([y \in {erase_node_y(t, node)} |->
        erase_node_with(t, node, y,
                        IF t.node[y].left # NULL THEN t.node[y].left
                        ELSE t.node[y].right)])

\* RedBlackTree::erase(iterator), the iterator given by its node; NULL for
\* end()
RedBlackTree_erase_at(t, node) ==
    IF node = NULL THEN t
    ELSE Only([t1 \in {erase_node(t, node)} |->
            IF t1.fault THEN t1
            ELSE [t1 EXCEPT !.node = Map([n \in DOMAIN @ \ {node} |-> @[n]])]])

\* RedBlackTree::erase(const Key&)
RedBlackTree_erase(t, search) ==
    RedBlackTree_erase_at(t, RedBlackTree_find(t, search))

InitTree ==
    /\ InitNoEngine
    /\ table = NULL
    /\ trie = NULL
    /\ rbtree = RedBlackTree

\* a call that leaves the tree t
TreeCall(call, t) ==
    /\ ~rbtree.fault
    /\ t.size_ + MaxTreeKey >= 0
    /\ rbtree' = t
    /\ last' = call
    /\ UNCHANGED <<expression_, compiled_, parser_, heap, nfa_, state_, text,
                   returned, peer, table, trie>>

\* rbtree.insert(key, value);
TreeInsert(key, value) ==
    TreeCall(OtherCall, RedBlackTree_insert(rbtree, key, value))

\* rbtree[key];
TreeIndex(key) == TreeCall(OtherCall, RedBlackTree_index(rbtree, key))

\* rbtree.erase(key); `last' keeps the key and the tree before the call
TreeErase(key) ==
    TreeCall([op |-> "erase", key |-> key, before |-> rbtree],
             RedBlackTree_erase(rbtree, key))

\* a program that only inserts
NextTreeInsert == \E key \in TreeKeys, value \in Values : TreeInsert(key, value)

SpecTreeInsert == InitTree /\ [][NextTreeInsert]_vars

\* a program that inserts and erases the keys 0..MaxEraseKey
MaxEraseKey == 3

NextTree ==
    \/ \E key \in 0..MaxEraseKey, value \in Values : TreeInsert(key, value)
    \/ \E key \in 0..MaxEraseKey : TreeIndex(key)
    \/ \E key \in 0..MaxEraseKey : TreeErase(key)

SpecTree == InitTree /\ [][NextTree]_vars

\* the children of a node
ChildrenOf(t, n) == {t.node[n].left, t.node[n].right} \ {NULL}

\* the nodes of S and the nodes below them
RECURSIVE Below(_, _)
Below(t, S) ==
    IF UNION {ChildrenOf(t, n) : n \in S} \subseteq S THEN S
    ELSE Below(t, S \cup UNION {ChildrenOf(t, n) : n \in S})

\* the nodes in the tree
TreeNodes(t) == IF t.root_ = NULL THEN {} ELSE Below(t, {t.root_})

\* parent pointers mirror the child pointers, and no node is a child twice
ParentsConsistent(t) ==
    /\ t.root_ # NULL => ParentOf(t, t.root_) = NULL
    /\ \A n \in TreeNodes(t) :
          /\ t.node[n].left # NULL => t.node[n].left # t.node[n].right
          /\ \A c \in ChildrenOf(t, n) : ParentOf(t, c) = n

\* keys grow from left to right
IsSearchTree(t) ==
    \A n \in TreeNodes(t) :
        /\ t.node[n].left # NULL =>
              \A m \in Below(t, {t.node[n].left}) : t.node[m].key < t.node[n].key
        /\ t.node[n].right # NULL =>
              \A m \in Below(t, {t.node[n].right}) : t.node[n].key < t.node[m].key

\* the black nodes on every path from n down to a null pointer; -1 when two
\* paths differ
RECURSIVE BlackHeight(_, _)
BlackHeight(t, n) ==
    IF n = NULL THEN 0
    ELSE Only([l \in {BlackHeight(t, t.node[n].left)} |->
            Only([r \in {BlackHeight(t, t.node[n].right)} |->
               IF l = -1 \/ r = -1 \/ l # r THEN -1
               ELSE l + (IF t.node[n].color = "BLACK" THEN 1 ELSE 0)])])

\* a valid red-black tree that holds every node alive
IsRedBlack(t) ==
    /\ ParentsConsistent(t)
    /\ TreeNodes(t) = DOMAIN t.node
    /\ IsSearchTree(t)
    /\ t.root_ # NULL => t.node[t.root_].color = "BLACK"
    /\ \A n \in TreeNodes(t) :
          t.node[n].color = "RED" =>
              \A c \in ChildrenOf(t, n) : t.node[c].color = "BLACK"
    /\ BlackHeight(t, t.root_) # -1

\* find reaches every node by its key
AllFound(t) ==
    \A n \in DOMAIN t.node : RedBlackTree_find(t, t.node[n].key) = n

\* C24: after any sequence of insert(key, value) calls on an empty tree the
\* tree is a valid red-black tree (search order, black root, no red node
\* with a red child, equal black count on every path, consistent parent
\* pointers), find reaches every inserted key, and inserting an existing
\* key assigns the new value without adding a node.
C24_InsertKeepsRedBlack ==
    /\ ~rbtree.fault
    /\ IsRedBlack(rbtree)
    /\ AllFound(rbtree)
    /\ \A key \in TreeKeys, value \in Values :
          Only([t \in {RedBlackTree_insert(rbtree, key, value)} |->
              /\ RedBlackTree_find(t, key) # NULL
              /\ t.node[RedBlackTree_find(t, key)].value = value
              /\ \A n \in DOMAIN rbtree.node :
                    /\ n \in DOMAIN t.node
                    /\ t.node[n].key = rbtree.node[n].key
                    /\ rbtree.node[n].key # key =>
                          t.node[n].value = rbtree.node[n].value
              /\ RedBlackTree_find(rbtree, key) # NULL =>
                    DOMAIN t.node = DOMAIN rbtree.node])

\* all keys are in the tree, two red nodes among them, and two keys hold
\* different values: every further insert meets its key
C24_Witness ==
    /\ Cardinality(DOMAIN rbtree.node) = MaxTreeKey + 1
    /\ Cardinality({n \in DOMAIN rbtree.node : rbtree.node[n].color = "RED"}) >= 2
    /\ \E n, m \in DOMAIN rbtree.node :
          rbtree.node[n].value # rbtree.node[m].value

\* C23: after any sequence of insert, operator[] and erase from an empty
\* tree, size() is the number of nodes (distinct keys) in the tree.
C23_SizeCountsNodes ==
    ~rbtree.fault => rbtree.size_ = Cardinality(TreeNodes(rbtree))

\* C25: erase(k) of a present key dereferences no null node, removes
\* exactly the node with key k, leaves every other key findable with its
\* value and leaves a valid red-black tree, on every tree reachable by
\* inserts and erases, the tree of one node and the erasure of a black leaf
\* included.
C25_EraseKeepsRedBlack ==
    (last.op = "erase" /\ RedBlackTree_find(last.before, last.key) # NULL) =>
        /\ ~rbtree.fault
        /\ IsRedBlack(rbtree)
        /\ DOMAIN rbtree.node =
              DOMAIN last.before.node
                  \ {RedBlackTree_find(last.before, last.key)}
        /\ \A n \in DOMAIN rbtree.node :
              /\ RedBlackTree_find(rbtree, last.before.node[n].key) = n
              /\ rbtree.node[n].value = last.before.node[n].value

-----------------------------------------------------------------------------
(***************************************************************************)
(* A program that assembles two automata by hand through the public API   *)
(* and composes them: NFA A; NFA B; then add_transition between any two    *)
(* nodes, insert_node, set_input and set_output of any node on either      *)
(* automaton, A.merge(B) and A.acquire_nodes(B), in any order.  Every node *)
(* is made by an NFA constructor, so every edge the program adds targets a *)
(* node that an automaton owns.                                            *)
(***************************************************************************)
\* edges, epsilon and conditioned together, a program adds at most
MaxFuseEdges == 1

\* NFA A; NFA B;
FuseHeap == Only([a \in {NFA_new(EmptyHeap)} |-> NFA_new(a.h).h])

\* int main()
InitFuse ==
    /\ expression_ = <<>>
    /\ parser_ = NULL
    /\ compiled_ = NULL
    /\ heap = FuseHeap
    /\ nfa_ = NULL
    /\ state_ = {}
    /\ text = <<>>
    /\ returned = NotReturned
    /\ last = OtherCall
    /\ peer = NoRunner
    /\ NoContainer

\* the edges of every node alive
CountEdges(h) == CountEps(h, DOMAIN h.node) + CountCond(h, DOMAIN h.node)

\* n->add_transition(m);
FuseEps(n, m) ==
    /\ Running
    /\ m \notin heap.node[n].empty_transitions_
    /\ CountEdges(heap) < MaxFuseEdges
    /\ heap' = add_transition(heap, n, m)
    /\ last' = OtherCall
    /\ NoRegEx

\* n->add_transition(m, [](char c) { return c == 'a'; });
FuseCond(n, m) ==
    /\ Running
    /\ CountEdges(heap) < MaxFuseEdges
    /\ heap' = add_transition_if(heap, n, m, FnEquals("a"))
    /\ last' = OtherCall
    /\ NoRegEx

NextFuse ==
    \/ \E n, m \in Nodes : FuseEps(n, m)
    \/ \E n, m \in Nodes : FuseCond(n, m)
    \/ \E g \in Graphs, n \in Nodes : InsertNode(g, n)
    \/ \E g \in Graphs, n \in Nodes : SetInput(g, n)
    \/ \E g \in Graphs, n \in Nodes : SetOutput(g, n)
    \/ \E a, b \in Graphs : Merge(a, b)
    \/ \E a, b \in Graphs : AcquireNodes(a, b)

SpecFuse == InitFuse /\ [][NextFuse]_vars

-----------------------------------------------------------------------------
\* C31: D.acquire_nodes(S) for distinct automata D and S transfers ownership
\* and changes no topology: afterwards D's node set is the union of both
\* former node sets, S owns no nodes and has null input and output, every
\* transferred node's graph() is D, D.input() and D.output() are what they
\* were, and every node is still alive with the epsilon and conditioned
\* transitions it had.  Stated of the call made in any reachable state on
\* any two automata.
C31_AcquireTransfersOwnershipOnly ==
    \A D, S \in Graphs :
       D # S =>
          Only([after \in {acquire_nodes(heap, D, S)} |->
              /\ after.nfa[D].nodes_ = heap.nfa[D].nodes_ \cup heap.nfa[S].nodes_
              /\ after.nfa[S].nodes_ = {}
              /\ after.nfa[S].input_ = NULL
              /\ after.nfa[S].output_ = NULL
              /\ \A n \in heap.nfa[S].nodes_ : after.node[n].graph_ = D
              /\ after.nfa[D].input_ = heap.nfa[D].input_
              /\ after.nfa[D].output_ = heap.nfa[D].output_
              /\ DOMAIN after.node = DOMAIN heap.node
              /\ \A n \in DOMAIN heap.node :
                    /\ after.node[n].empty_transitions_
                          = heap.node[n].empty_transitions_
                    /\ after.node[n].transitions_ = heap.node[n].transitions_])

\* a compiled automaton and its copy, each with epsilon and conditioned
\* edges, input and output; the original acquires the nodes of the copy
C31_Witness ==
    /\ last.op = "duplicate"
    /\ \E D, S \in Graphs :
          /\ D # S
          /\ heap.nfa[D].input_ # NULL /\ heap.nfa[S].input_ # NULL
          /\ \E n \in heap.nfa[D].nodes_ : heap.node[n].empty_transitions_ # {}
          /\ \E n \in heap.nfa[S].nodes_ : heap.node[n].empty_transitions_ # {}
          /\ \E n \in heap.nfa[S].nodes_ : heap.node[n].transitions_ # <<>>
          /\ Cardinality(acquire_nodes(heap, D, S).nfa[D].nodes_)
                = Cardinality(heap.nfa[D].nodes_)
                  + Cardinality(heap.nfa[S].nodes_)
          /\ acquire_nodes(heap, D, S).nfa[S].nodes_ = {}

-----------------------------------------------------------------------------
(***************************************************************************)
(* A program that builds the automaton of a tree it assembled from the ast *)
(* classes: NFA g = tree->build(); and then lets g go out of scope.        *)
(***************************************************************************)

\* NFA g = tree->build();
Build ==
    /\ last.op = "RegEx"
    /\ \E b \in {build(heap, parser_.tree)} :
          /\ heap' = b.h
          /\ last' = [op |-> "build", value |-> b.r]
    /\ UNCHANGED <<expression_, compiled_, parser_, nfa_, state_, text,
                   returned, peer>>
    /\ ContainersUnchanged

\* g goes out of scope
BuildDelete ==
    /\ last.op = "build"
    /\ heap' = NFA_delete(heap, last.value)
    /\ last' = [op |-> "~NFA", this |-> last.value]
    /\ UNCHANGED <<expression_, compiled_, parser_, nfa_, state_, text,
                   returned, peer>>
    /\ ContainersUnchanged

NextBuild ==
    \/ Build
    \/ BuildDelete

SpecBuild == InitAst /\ [][NextBuild]_vars

\* C32: for every tree of every variant, with null children or without,
\* build() returns an automaton whose input and output are non-null,
\* distinct from each other and members of its node set, and every node of
\* its node set has graph() equal to the automaton returned.
C32_BuildReturnsFragment ==
    last.op = "build" =>
        \A g \in {last.value} :
            /\ g \in Graphs
            /\ heap.nfa[g].input_ # NULL
            /\ heap.nfa[g].output_ # NULL
            /\ heap.nfa[g].input_ \in heap.nfa[g].nodes_
            /\ heap.nfa[g].output_ \in heap.nfa[g].nodes_
            /\ heap.nfa[g].input_ # heap.nfa[g].output_
            /\ \A n \in heap.nfa[g].nodes_ :
                  n \in Nodes /\ heap.node[n].graph_ = g

\* a Choice of a null child and a starred letter has been built: the nodes
\* of the Choice, of the star and of the letter
C32_Witness ==
    /\ last.op = "build"
    /\ parser_.tree = Choice(NullAst, KleeneStar(SingleCharacter("a")))
    /\ Cardinality(heap.nfa[last.value].nodes_) = 6
    /\ heap.nfa[last.value].input_ # heap.nfa[last.value].output_

\* Has the tree no null child?
RECURSIVE NoNullChild(_)
NoNullChild(t) ==
    CASE t.tag = "nullptr" -> FALSE
      [] t.tag = "Leaf" -> TRUE
      [] t.tag \in {"Choice", "Concat"} ->
            NoNullChild(t.left) /\ NoNullChild(t.right)
      [] OTHER -> NoNullChild(t.child)

\* C37: for every automaton build() returns on a tree without null
\* children, no node has an epsilon or conditioned edge to the input node,
\* the output node has no edge, and every edge of every node of the
\* automaton leads to a node of the automaton; and when the tree is a
\* Concat, no node has an edge to the input of right_graph, the node that
\* merge deletes.
C37_FragmentEndsAreClean ==
    (last.op = "build" /\ NoNullChild(parser_.tree)) =>
        /\ \A g \in {last.value} :
              /\ \A n \in Nodes : heap.nfa[g].input_ \notin Targets(heap, n)
              /\ Targets(heap, heap.nfa[g].output_) = {}
              /\ \A n \in heap.nfa[g].nodes_ :
                    Targets(heap, n) \subseteq heap.nfa[g].nodes_
        /\ parser_.tree.tag = "Concat" =>
              Only([o \in {Concat_operands(EmptyHeap, parser_.tree.left,
                                           parser_.tree.right)} |->
                  \A n \in DOMAIN o.h.node :
                     o.h.nfa[o.right_graph].input_ \notin Targets(o.h, n)])

\* a repeated letter followed by a letter has been built: the loop edge of
\* the repetition leads into the fragment, and merge has fused the output of
\* the repetition with the input of the letter
C37_Witness ==
    /\ last.op = "build"
    /\ parser_.tree = Concat(KleenePlus(SingleCharacter("a")),
                             SingleCharacter("b"))
    /\ Cardinality(heap.nfa[last.value].nodes_) = 5
    /\ \E n, m \in heap.nfa[last.value].nodes_ :
          /\ m \in heap.node[n].empty_transitions_
          /\ Len(heap.node[m].transitions_) = 1
          /\ heap.node[m].transitions_[1].target = heap.nfa[last.value].output_

-----------------------------------------------------------------------------
\* Does an automaton own node n?
Owned(h, n) == \E g \in DOMAIN h.nfa : n \in h.nfa[g].nodes_

\* C38: for automata assembled through add_transition, set_input,
\* set_output and insert_node in which every edge leads to an owned node, a
\* successful A.merge(B) leaves no dangling edge: afterwards no node owned
\* by A has an epsilon or conditioned transition to the discarded B.input,
\* also when B.input had incoming edges before the merge.  Stated of the
\* call made in any reachable state on any two automata.
C38_MergeLeavesNoDanglingEdge ==
    (\A n \in Nodes : \A t \in Targets(heap, n) : Owned(heap, t)) =>
        \A a, b \in Graphs :
            Only([m \in {NFA_merge(heap, a, b)} |->
                (~m.fault /\ m.r) =>
                    \A n \in m.h.nfa[a].nodes_ :
                        heap.nfa[b].input_ \notin Targets(m.h, n)])

\* C39: A.merge(B) completes and returns true for every pair of distinct
\* automata that each have a non-null input and a non-null output, also
\* when B's input and output are one node: no null node reaches set_output
\* or insert_node, and A.output() is non-null afterwards.  Stated of the
\* call made in any reachable state on any two automata.
C39_MergeCompletes ==
    \A a, b \in Graphs :
        (/\ a # b
         /\ heap.nfa[a].input_ # NULL /\ heap.nfa[a].output_ # NULL
         /\ heap.nfa[b].input_ # NULL /\ heap.nfa[b].output_ # NULL) =>
            Only([m \in {NFA_merge(heap, a, b)} |->
                /\ ~m.fault
                /\ m.r
                /\ m.h.nfa[a].output_ # NULL])

-----------------------------------------------------------------------------
(* Properties of SimpleParser, stated of the pattern text of the RegEx and  *)
(* of the texts made from it by appending a character                      *)

\* Does one of the characters C occur in the text x?
HasChar(x, C) == \E i \in 1..Len(x) : x[i] \in C

\* the tree t with every leaf on the letter 'b' made a leaf on a backslash
RECURSIVE LetterAsBackslash(_)
LetterAsBackslash(t) ==
    CASE t.tag = "nullptr" -> t
      [] t.tag = "Leaf" ->
            IF t = SingleCharacter("b") THEN SingleCharacter("\\") ELSE t
      [] t.tag \in {"Choice", "Concat"} ->
            [t EXCEPT !.left = LetterAsBackslash(t.left),
                      !.right = LetterAsBackslash(t.right)]
      [] OTHER -> [t EXCEPT !.child = LetterAsBackslash(t.child)]

\* C33 as the specification states it: a backslash at the end of the
\* pattern with nothing after it is dropped and no node is emitted: for
\* every pattern X, X followed by a final backslash parses to the tree of X
\* alone, and the pattern a\ accepts "a".
C33_TrailingBackslashIsDropped ==
    /\ SimpleParser_parse(Stream(expression_ \o <<"\\">>))
          = SimpleParser_parse(Stream(expression_))
    /\ (expression_ = <<"a", "\\">> /\ compiled_ # NULL) =>
          accepts(heap, compiled_, <<"a">>)

\* C33: a backslash at the end of the pattern with nothing after it is read
\* as the literal character it is, the way any ordinary character in its
\* place is read, and a SingleCharacter on the backslash is emitted: for
\* every pattern X without a backslash and without a bracket, X followed by
\* a final backslash parses to the tree of X followed by the letter b, with
\* the backslash in the place of the letter; the pattern a\ parses to
\* Concat(a, \), accepts the two characters a\ and rejects "a".
C33_TrailingBackslashIsLiteral ==
    /\ ~HasChar(expression_, {"\\", "["}) =>
          SimpleParser_parse(Stream(expression_ \o <<"\\">>))
             = LetterAsBackslash(
                   SimpleParser_parse(Stream(expression_ \o <<"b">>)))
    /\ expression_ = <<"a", "\\">> =>
          /\ SimpleParser_parse(Stream(expression_))
                = Concat(SingleCharacter("a"), SingleCharacter("\\"))
          /\ compiled_ # NULL =>
                /\ accepts(heap, compiled_, <<"a", "\\">>)
                /\ ~accepts(heap, compiled_, <<"a">>)

\* the pattern a\ has been compiled, and its automaton takes the backslash
\* from the input
C33_Witness ==
    /\ expression_ = <<"a", "\\">>
    /\ last.op = "compile"
    /\ compiled_ # NULL
    /\ accepts(heap, compiled_, <<"a", "\\">>)
    /\ ~accepts(heap, compiled_, <<"a">>)

-----------------------------------------------------------------------------
EndsIn(x, E) ==
    \E e \in E : Len(x) >= Len(e) /\ SubSeq(x, Len(x) - Len(e) + 1, Len(x)) = e

-----------------------------------------------------------------------------
\* the pattern text x read up to, and not including, its i-th character
ReadUpTo(x, i) == [s |-> x, pos |-> i]

\* C35: a postfix quantifier binds to the single atom before it: ab* parses
\* to Concat(a, KleeneStar(b)) and (ab)* to a KleeneStar over the group; at
\* every place of every pattern, parse_quantifier on a quantifier character
\* wraps the atom it is given, and nothing else, in the node of that
\* character and reads that one character; on any other character it
\* returns the atom unchanged and leaves that character the next one read.
C35_QuantifierBindsOneAtom ==
    /\ SimpleParser_parse(Stream(<<"a", "b", "*">>))
          = Concat(SingleCharacter("a"), KleeneStar(SingleCharacter("b")))
    /\ SimpleParser_parse(Stream(<<"a", "b", "?">>))
          = Concat(SingleCharacter("a"), Optional(SingleCharacter("b")))
    /\ SimpleParser_parse(Stream(<<"a", "b", "+">>))
          = Concat(SingleCharacter("a"), KleenePlus(SingleCharacter("b")))
    /\ SimpleParser_parse(Stream(<<"(", "a", "b", ")", "*">>))
          = KleeneStar(Subexpression(Concat(SingleCharacter("a"),
                                            SingleCharacter("b"))))
    /\ \A i \in 1..(Len(expression_) + 1) :
       \A child \in {SingleCharacter("a"), Subexpression(SingleCharacter("a"))} :
       \A in \in {ReadUpTo(expression_, i)} :
          Only([q \in {parse_quantifier(in, child)} |->
              CASE peek(in) = "?" ->
                      q = [node |-> Optional(child), in |-> get(in).in]
                [] peek(in) = "*" ->
                      q = [node |-> KleeneStar(child), in |-> get(in).in]
                [] peek(in) = "+" ->
                      q = [node |-> KleenePlus(child), in |-> get(in).in]
                [] OTHER ->
                      /\ q.node = child
                      /\ peek(q.in) = peek(in)
                      /\ get(q.in) = get(in)])
    /\ (expression_ = <<"a", "a", "*">> /\ compiled_ # NULL) =>
          /\ accepts(heap, compiled_, <<"a">>)
          /\ accepts(heap, compiled_, <<"a", "a", "a">>)
          /\ ~accepts(heap, compiled_, <<>>)

\* the pattern aa* has been compiled: the star repeats the second letter
\* alone, and the first letter was given to parse_quantifier with the
\* second one next
C35_Witness ==
    /\ expression_ = <<"a", "a", "*">>
    /\ last.op = "compile"
    /\ compiled_ # NULL
    /\ accepts(heap, compiled_, <<"a", "a", "a">>)
    /\ ~accepts(heap, compiled_, <<>>)
    /\ parse_quantifier(ReadUpTo(expression_, 2), SingleCharacter("a"))
          = [node |-> SingleCharacter("a"), in |-> ReadUpTo(expression_, 2)]

-----------------------------------------------------------------------------
\* C36: when the pattern source has no characters left to read, and so for
\* the empty pattern text, parsing yields a null result and no leaf, and
\* Parser::compile returns a fresh automaton whose input and output have no
\* transitions: no leaf on the end-of-input sentinel is created.
C36_EmptyPatternHasNoLeaf ==
    expression_ = <<>> =>
        /\ SimpleParser_parse(Stream(expression_)) = NullAst
        /\ Only([c \in {Parser_compile(EmptyHeap, parser_, expression_)} |->
               /\ Targets(c.h, c.h.nfa[c.r].input_) = {}
               /\ Targets(c.h, c.h.nfa[c.r].output_) = {}])
        /\ compiled_ # NULL =>
              /\ Targets(heap, heap.nfa[compiled_].input_) = {}
              /\ Targets(heap, heap.nfa[compiled_].output_) = {}

====
